---- MODULE Spec2Model ----
(***************************************************************************)
(* Cache / lookup layer of the stock watchlist monitor:                    *)
(*   - WatchlistDatabase  (SQLite tables watchlist, alpha_vantage_cache)   *)
(*   - AlphaVantageService / PerplexityService adapters                    *)
(*   - App in-flight guards (ongoingNewsCalls, ongoingEventsCalls)         *)
(* Time is counted in hours since an epoch that starts a UTC day.          *)
(***************************************************************************)
EXTENDS Integers, Sequences, FiniteSets, Bags, TLC

VARIABLES
    now,          \* wall clock (Date.now() / SQLite CURRENT_TIMESTAMP), in hours
    cacheTable,   \* rows of table alpha_vantage_cache
    last,         \* the most recent call and what it returned
    memCache,     \* AlphaVantageService.cache: symbol -> {data, timestamp}
    pending,      \* bag of upstream requests awaiting their response
    ongoingNewsCalls,    \* App.ongoingNewsCalls
    ongoingEventsCalls,  \* App.ongoingEventsCalls
    scope,        \* the component a behaviour drives; it never changes
    watchlist,    \* rows of table watchlist
    nextId,       \* the next AUTOINCREMENT id of table watchlist
    batches,      \* the bulk price refreshes awaiting their lookups
    paidSignals   \* bag of sendPaidSignal calls awaiting usage.record

vars == <<now, cacheTable, last, memCache, pending,
          ongoingNewsCalls, ongoingEventsCalls, scope,
          watchlist, nextId, batches, paidSignals>>

wlVars == <<watchlist, nextId>>

dbVars  == <<now, cacheTable>>
appVars == <<ongoingNewsCalls, ongoingEventsCalls>>
svcVars == <<memCache, pending, appVars>>

Scopes == {"market", "perplexity", "app", "watchlist"}

----------------------------------------------------------------------------
(* Bounds of the model *)

MaxTime == 48
TickHours == 24
MaxRows == 2
MaxPending == 2
MaxId == 3
MaxWatchTime == 0
MaxSignals == 1
MaxPoints == 3
MaxLines == 6
MaxHead == 3
MaxFiller == 11

(* Calendar *)
HoursPerDay == 24

----------------------------------------------------------------------------
(* JavaScript values and JSON text *)

JTrue      == [type |-> "boolean",   val |-> "true"]
JFalse     == [type |-> "boolean",   val |-> "false"]
JNull      == [type |-> "null",      val |-> "null"]
JUndefined == [type |-> "undefined", val |-> "undefined"]
JNaN       == [type |-> "number",    val |-> "NaN"]
JQuote     == [type |-> "object",    val |-> "quote"]
JQuoteNaN  == [type |-> "object",    val |-> "quote_NaN"]
JQuoteNull == [type |-> "object",    val |-> "quote_null"]

\* JSON.stringify gives no text at all for undefined
NoText == [json |-> "none", body |-> "undefined"]

\* JSON has no NaN: a NaN number, alone or as a field, is written as null
JSONstringify(v) ==
    CASE v.type = "undefined" -> NoText
      [] v.type = "boolean"   -> [json |-> "literal", body |-> v.val]
      [] v.type = "null"      -> [json |-> "literal", body |-> "null"]
      [] v.type = "number"    -> IF v.val = "NaN"
                                 THEN [json |-> "literal", body |-> "null"]
                                 ELSE [json |-> "number", body |-> v.val]
      [] v.type = "object"    -> IF v.val = "quote_NaN"
                                 THEN [json |-> "object", body |-> "quote_null"]
                                 ELSE [json |-> "object", body |-> v.val]
      [] OTHER                -> [json |-> v.type, body |-> v.val]

JSONparse(s) ==
    CASE s.json = "literal" /\ s.body = "true"  -> JTrue
      [] s.json = "literal" /\ s.body = "false" -> JFalse
      [] s.json = "literal" /\ s.body = "null"  -> JNull
      [] OTHER -> [type |-> s.json, val |-> s.body]

\* a value that JSON can represent: stringify yields text that parses back
JSONSerializable(v) == v \notin {JUndefined, JNaN, JQuoteNaN}

toUpperCase(s) ==
    CASE s = "aapl" -> "AAPL"
      [] s = "msft" -> "MSFT"
      [] OTHER -> s

----------------------------------------------------------------------------
(* Timestamps as SQLite stores and compares them: TEXT, byte by byte.       *)
(* new Date(ms).toISOString()  = "YYYY-MM-DDTHH:MM:SS.sssZ"                 *)
(* CURRENT_TIMESTAMP           = "YYYY-MM-DD HH:MM:SS"                      *)

toISOString(t) ==
    [date |-> t \div HoursPerDay, sep |-> "T", time |-> t % HoursPerDay]

CURRENT_TIMESTAMP ==
    [date |-> now \div HoursPerDay, sep |-> " ", time |-> now % HoursPerDay]

\* byte order of the two separators: " " (0x20) sorts before "T" (0x54)
SepLess(a, b) == a = " " /\ b = "T"

\* a < b in SQLite's BINARY collation
TextLess(a, b) ==
    \/ a.date < b.date
    \/ /\ a.date = b.date
       /\ \/ SepLess(a.sep, b.sep)
          \/ a.sep = b.sep /\ a.time < b.time

\* the instant a stored expires_at text stands for, in hours
InstantOf(ts) == ts.date * HoursPerDay + ts.time

----------------------------------------------------------------------------
(* WatchlistDatabase: cache table *)

SameKey(r, ticker, cacheType) == r.ticker = ticker /\ r.cache_type = cacheType

InsertNoReplace(table, row) == table \cup {row}

\* INSERT OR REPLACE under UNIQUE(ticker, cache_type)
InsertOrReplace(table, row) ==
    {r \in table : ~SameKey(r, row.ticker, row.cache_type)} \cup {row}

LiveRowsRawKey(table, ticker, cacheType) ==
    {r \in table : /\ SameKey(r, ticker, cacheType)
                   /\ TextLess(CURRENT_TIMESTAMP, r.expires_at)}

\* SELECT ... WHERE ticker = ? AND cache_type = ? AND expires_at > CURRENT_TIMESTAMP
LiveRows(table, ticker, cacheType) ==
    {r \in table : /\ SameKey(r, toUpperCase(ticker), cacheType)
                   /\ TextLess(CURRENT_TIMESTAMP, r.expires_at)}

\* getCacheData run against a given content of the table
getCacheDataIn(table, ticker, cacheType) ==
    IF LiveRows(table, ticker, cacheType) = {}
    THEN JNull
    ELSE JSONparse((CHOOSE r \in LiveRows(table, ticker, cacheType) : TRUE).data)

getCacheData(ticker, cacheType) == getCacheDataIn(cacheTable, ticker, cacheType)

ExpiredByInstant ==
    {r \in cacheTable : InstantOf(r.expires_at) <= now}

\* DELETE ... WHERE expires_at <= CURRENT_TIMESTAMP
ExpiredRows ==
    {r \in cacheTable : ~TextLess(CURRENT_TIMESTAMP, r.expires_at)}

SpecificRowsByTicker(ticker, cacheType) ==
    {r \in cacheTable : r.ticker = toUpperCase(ticker)}

\* DELETE ... WHERE ticker = ? AND cache_type = ?
SpecificRows(ticker, cacheType) ==
    {r \in cacheTable : SameKey(r, toUpperCase(ticker), cacheType)}

\* the upstream response an adapter call was resumed with, if any
NoResponse == [ok |-> TRUE, signal |-> "", body |-> ""]

\* existed: whether the call found a row for its (ticker, cache_type)
\* rows:    the sequence getAllStocks returned
\* caller:  the function awaiting the call, "" when called directly
\* via:     where an adapter's answer came from ("db", "memory", "upstream")
\* err:     the error an adapter call raised, "" when it returned
NoSummary == [shown |-> FALSE, n |-> 0, successCount |-> 0, errorCount |-> 0,
              failed |-> {}]

NoCall == [op |-> "none", key |-> "", cacheType |-> "", data |-> JNull,
           ttl |-> 0, ret |-> JNull, count |-> 0, existed |-> FALSE,
           via |-> "", err |-> "", resp |-> NoResponse, caller |-> "",
           rows |-> << >>, added |-> FALSE, summary |-> NoSummary]

Bool(b) == IF b THEN JTrue ELSE JFalse

CacheRow(ticker, cacheType, data, expiresInHours) ==
    [ticker     |-> toUpperCase(ticker),
     cache_type |-> cacheType,
     data       |-> JSONstringify(data),
     expires_at |-> toISOString(now + expiresInHours)]

\* binding the missing text of an undefined payload to the NOT NULL column throws
setCacheDataOk(data) == JSONstringify(data) # NoText

TableAfterSet(ticker, cacheType, data, expiresInHours) ==
    IF setCacheDataOk(data)
    THEN InsertOrReplace(cacheTable,
                         CacheRow(ticker, cacheType, data, expiresInHours))
    ELSE cacheTable

setCacheData(ticker, cacheType, data, expiresInHours) ==
    /\ cacheTable' = TableAfterSet(ticker, cacheType, data, expiresInHours)
    /\ last' = [NoCall EXCEPT !.op = "setCacheData", !.key = ticker,
                              !.cacheType = cacheType, !.data = data,
                              !.ttl = expiresInHours,
                              !.existed = (SpecificRows(ticker, cacheType) # {}),
                              !.ret = Bool(setCacheDataOk(data))]
    /\ UNCHANGED <<scope, paidSignals, wlVars, batches, now, svcVars>>

CallGetCacheData(ticker, cacheType) ==
    /\ last' = [NoCall EXCEPT !.op = "getCacheData", !.key = ticker,
                              !.cacheType = cacheType,
                              !.ret = getCacheData(ticker, cacheType)]
    /\ UNCHANGED <<scope, paidSignals, wlVars, batches, now, cacheTable, svcVars>>

clearExpiredCache ==
    /\ cacheTable' = cacheTable \ ExpiredRows
    /\ last' = [NoCall EXCEPT !.op = "clearExpiredCache",
                              !.count = Cardinality(ExpiredRows)]
    /\ UNCHANGED <<scope, paidSignals, wlVars, batches, now, svcVars>>

clearSpecificCache(ticker, cacheType) ==
    /\ cacheTable' = cacheTable \ SpecificRows(ticker, cacheType)
    /\ last' = [NoCall EXCEPT !.op = "clearSpecificCache", !.key = ticker,
                              !.cacheType = cacheType,
                              !.ret = Bool(SpecificRows(ticker, cacheType) # {})]
    /\ UNCHANGED <<scope, paidSignals, wlVars, batches, now, svcVars>>

\* time passes between calls
\* the hours a behaviour covers: the watchlist flows of the App are explored
\* within MaxWatchTime of the start
Horizon == IF scope = "watchlist" THEN MaxWatchTime ELSE MaxTime

Tick ==
    /\ now + TickHours <= Horizon
    /\ now' = now + TickHours
    /\ last' = [NoCall EXCEPT !.op = "tick"]
    /\ UNCHANGED <<scope, paidSignals, wlVars, batches, cacheTable, svcVars>>

----------------------------------------------------------------------------
(* WatchlistDatabase: table watchlist                                       *)
(*   id INTEGER PRIMARY KEY AUTOINCREMENT, ticker TEXT UNIQUE NOT NULL,     *)
(*   added_at DATETIME DEFAULT CURRENT_TIMESTAMP, price, change_amount,     *)
(*   change_percent, last_updated                                           *)

NullTime == [date |-> 0 - 1, sep |-> " ", time |-> 0]

WatchRow(id, ticker) ==
    [id |-> id, ticker |-> ticker, added_at |-> CURRENT_TIMESTAMP,
     price |-> "NULL", change_amount |-> "NULL", change_percent |-> "NULL",
     last_updated |-> NullTime]

TickerRows(table, ticker) == {r \in table : r.ticker = toUpperCase(ticker)}

InsertedAsTyped(ticker) == ticker

\* stmt.run(ticker.toUpperCase()): the value bound to the INSERT
InsertedTicker(ticker) == toUpperCase(ticker)

NoUniqueCheck(table, ticker) == FALSE

\* ticker TEXT UNIQUE: the INSERT throws when the bound value is stored already
UniqueViolation(table, ticker) ==
    \E r \in table : r.ticker = InsertedTicker(ticker)

AddNeverFails(ticker) == TRUE

addStockOk(ticker) == ~UniqueViolation(watchlist, ticker)

WatchlistAfterAdd(ticker) ==
    IF addStockOk(ticker)
    THEN watchlist \cup {WatchRow(nextId, InsertedTicker(ticker))}
    ELSE watchlist

NextIdAfterAdd(ticker) == IF addStockOk(ticker) THEN nextId + 1 ELSE nextId

addStock(ticker) ==
    /\ watchlist' = WatchlistAfterAdd(ticker)
    /\ nextId' = NextIdAfterAdd(ticker)
    /\ last' = [NoCall EXCEPT !.op = "addStock", !.key = ticker,
                              !.ret = Bool(addStockOk(ticker))]
    /\ UNCHANGED <<scope, paidSignals, batches, dbVars, svcVars>>

RemovedRowsRawKey(table, ticker) == {r \in table : r.ticker = ticker}

\* DELETE FROM watchlist WHERE ticker = ?   (ticker.toUpperCase())
RemovedRows(table, ticker) == TickerRows(table, ticker)

CacheCascaded(ticker) == cacheTable \ SpecificRowsByTicker(ticker, "")

\* the schema has no foreign key and no trigger: the DELETE touches the
\* table watchlist only
CacheAfterRemove(ticker) == cacheTable

removeStock(ticker) ==
    /\ watchlist' = watchlist \ RemovedRows(watchlist, ticker)
    /\ cacheTable' = CacheAfterRemove(ticker)
    /\ last' = [NoCall EXCEPT !.op = "removeStock", !.key = ticker,
                              !.ret = Bool(RemovedRows(watchlist, ticker) # {})]
    /\ UNCHANGED <<scope, paidSignals, nextId, batches, now, svcVars>>

hasStock(ticker) == TickerRows(watchlist, ticker) # {}

CallHasStock(ticker) ==
    /\ last' = [NoCall EXCEPT !.op = "hasStock", !.key = ticker,
                              !.ret = Bool(hasStock(ticker))]
    /\ UNCHANGED <<scope, paidSignals, wlVars, batches, dbVars, svcVars>>

UpdatedAllRows(table, ticker, snapshot) ==
    {[r EXCEPT !.price = snapshot.price,
               !.change_amount = snapshot.change,
               !.change_percent = snapshot.changePercent,
               !.last_updated = CURRENT_TIMESTAMP] : r \in table}

UpsertedRows(table, ticker, snapshot) ==
    IF TickerRows(table, ticker) = {}
    THEN table \cup {[WatchRow(nextId, toUpperCase(ticker))
                         EXCEPT !.price = snapshot.price,
                                !.change_amount = snapshot.change,
                                !.change_percent = snapshot.changePercent,
                                !.last_updated = CURRENT_TIMESTAMP]}
    ELSE UpdatedAllRows(table, ticker, snapshot)

\* UPDATE watchlist SET price = ?, change_amount = ?, change_percent = ?,
\*        last_updated = CURRENT_TIMESTAMP WHERE ticker = ?
WatchlistAfterUpdate(table, ticker, snapshot) ==
    {IF r \in TickerRows(table, ticker)
     THEN [r EXCEPT !.price = snapshot.price,
                    !.change_amount = snapshot.change,
                    !.change_percent = snapshot.changePercent,
                    !.last_updated = CURRENT_TIMESTAMP]
     ELSE r : r \in table}

updateStockPrice(ticker, snapshot) ==
    /\ watchlist' = WatchlistAfterUpdate(watchlist, ticker, snapshot)
    /\ last' = [NoCall EXCEPT !.op = "updateStockPrice", !.key = ticker,
                              !.ret = Bool(TickerRows(watchlist, ticker) # {})]
    /\ UNCHANGED <<scope, paidSignals, nextId, batches, dbVars, svcVars>>

TieByAscendingRowid(a, b) == a.id < b.id

\* rows with equal added_at: the query is answered by a backward scan of
\* idx_added_at, whose entries with equal key are ordered by rowid
TieOrder(a, b) == a.id > b.id

\* ORDER BY added_at DESC; added_at is CURRENT_TIMESTAMP text with a
\* resolution of one second
OrderedBefore(a, b) ==
    \/ TextLess(b.added_at, a.added_at)
    \/ a.added_at = b.added_at /\ TieOrder(a, b)

getAllStocksOf(table) ==
    CHOOSE rows \in [1..Cardinality(table) -> table] :
        \A i, j \in 1..Cardinality(table) : i < j => OrderedBefore(rows[i], rows[j])

getAllStocks == getAllStocksOf(watchlist)

CallGetAllStocks ==
    /\ last' = [NoCall EXCEPT !.op = "getAllStocks", !.rows = getAllStocks]
    /\ UNCHANGED <<scope, paidSignals, wlVars, batches, dbVars, svcVars>>

Symbols == {"AAPL", "MSFT"}

----------------------------------------------------------------------------
(* JavaScript truthiness, as in if (cachedData) *)

Truthy(v) == v \notin {JFalse, JNull, JUndefined, JNaN}

NoEntry == [data |-> JUndefined, timestamp |-> 0 - 1]

----------------------------------------------------------------------------
(* Upstream requests in flight.  A call that reaches fetch() suspends there  *)
(* and is resumed by the response; what runs before the await, and what     *)
(* runs after it, are each one step.                                        *)

\* usage: whether the response the awaiting caller already holds carries
\*        usage.cost (read only after the caller's own cache write)
Request(op, ticker, arg) ==
    [op |-> op, ticker |-> ticker, arg |-> arg, usage |-> TRUE]

InFlight(req) == BagIn(req, pending)

Issued(req) == pending' = pending (+) SetToBag({req})

Answered(req) == pending' = pending (-) SetToBag({req})

CanIssue == BagCardinality(pending) < MaxPending

Returned(op, key, cacheType, via, ret) ==
    [NoCall EXCEPT !.op = op, !.key = key, !.cacheType = cacheType,
                   !.via = via, !.ret = ret]

Resumed(op, key, cacheType, response, err, ret) ==
    [NoCall EXCEPT !.op = op, !.key = key, !.cacheType = cacheType,
                   !.via = "upstream", !.resp = response, !.err = err,
                   !.ret = ret]

Suspended(op, key, cacheType) ==
    [NoCall EXCEPT !.op = op, !.key = key, !.cacheType = cacheType,
                   !.via = "fetch", !.ret = JUndefined]

----------------------------------------------------------------------------
(* Market-data provider responses: HTTP status, at most one of the fields   *)
(* "Error Message" / "Note" / "Information", and the payload body.          *)

AVSignals == {"none", "Error Message", "Note", "Information"}

AVBodies(op) ==
    IF op = "validateSymbol" THEN {"none", "match", "nomatch"}
                             ELSE {"none", "data"}

AVResponses(op) ==
    {[ok |-> FALSE, signal |-> "none", body |-> "none"]}
    \cup {[ok |-> TRUE, signal |-> s, body |-> b] :
              s \in AVSignals, b \in AVBodies(op)}

RateLimited(response) == response.signal \in {"Note", "Information"}

----------------------------------------------------------------------------
(* AlphaVantageService *)

CacheTTLHours == 24
cacheTimeout == 5

JSeries(timeRange) == [type |-> "array", val |-> timeRange]

cacheKey(timeRange) ==
    CASE timeRange = "1m" -> "historical_1m"
      [] timeRange = "3m" -> "historical_3m"
      [] timeRange = "1y" -> "historical_1y"
      [] timeRange = "5y" -> "historical_5y"

\* cached && Date.now() - cached.timestamp < this.cacheTimeout   (minutes)
MemLive(cached) ==
    cached # NoEntry /\ (now - cached.timestamp) * 60 < cacheTimeout

QuoteCacheHit(cachedData) == Truthy(cachedData)

getStockQuoteStart(symbol) ==
    LET upperSymbol == toUpperCase(symbol)
        cachedData  == getCacheData(upperSymbol, "quote")
        cached      == memCache[upperSymbol]
    IN  /\ IF QuoteCacheHit(cachedData)
           THEN /\ last' = Returned("getStockQuote", symbol, "quote", "db", cachedData)
                /\ UNCHANGED pending
           ELSE IF MemLive(cached)
           THEN /\ last' = Returned("getStockQuote", symbol, "quote", "memory", cached.data)
                /\ UNCHANGED pending
           ELSE /\ CanIssue
                /\ Issued(Request("getStockQuote", upperSymbol, ""))
                /\ last' = Suspended("getStockQuote", symbol, "quote")
        /\ UNCHANGED <<scope, paidSignals, wlVars, batches, dbVars, memCache, appVars>>

\* the error getStockQuote throws for a response, "" when it is a quote
QuoteError(response) ==
    CASE ~response.ok                        -> "http"
      [] response.signal = "Error Message"   -> "invalid"
      [] RateLimited(response)               -> "ratelimit"
      [] response.body = "none"              -> "nodata"
      [] OTHER                               -> ""

StoredWhateverThrown(err) == TRUE

\* the cache writes of getStockQuote and getHistoricalData come after every
\* throw of the try block
StoredAfterChecks(err) == err = ""

getStockQuoteResume(upperSymbol, response) ==
    LET req == Request("getStockQuote", upperSymbol, "")
        err == QuoteError(response)
    IN  /\ InFlight(req)
        /\ Answered(req)
        /\ IF StoredAfterChecks(err)
           THEN /\ memCache' = [memCache EXCEPT ![upperSymbol] =
                                   [data |-> JQuote, timestamp |-> now]]
                /\ cacheTable' = TableAfterSet(upperSymbol, "quote", JQuote, CacheTTLHours)
           ELSE UNCHANGED <<memCache, cacheTable>>
        /\ last' = Resumed("getStockQuote", upperSymbol, "quote", response, err,
                           IF err = "" THEN JQuote ELSE JUndefined)
        /\ UNCHANGED <<scope, paidSignals, wlVars, batches, now, appVars>>

\* The JSON body of a GLOBAL_QUOTE response in detail: which of the fields
\* "Error Message", "Note", "Information" it has, and its "Global Quote":
\*   absent       no "Global Quote" field
\*   empty        "Global Quote": {}
\*   emptySymbol  "01. symbol": ""
\*   noPercent    "01. symbol" present, "10. change percent" missing
\*   noPrice      "01. symbol" and "10. change percent" present, "05. price" missing
\*   full         every field present
QuoteBodies == {"absent", "empty", "emptySymbol", "noPercent", "noPrice", "full"}

QuoteShapes ==
    [ok : BOOLEAN, errorMessage : BOOLEAN, note : BOOLEAN, information : BOOLEAN,
     body : QuoteBodies]

\* !data["Global Quote"] || !data["Global Quote"]["01. symbol"]
NoSymbol(body) == body \in {"absent", "empty", "emptySymbol"}

\* the message of the error getStockQuote throws for a response of this
\* shape, "" when it returns
QuoteThrown(shape) ==
    CASE ~shape.ok           -> "HTTP error! status"
      [] shape.errorMessage  -> "Invalid symbol"
      [] shape.note          -> "API rate limit exceeded. Please try again later."
      [] shape.information   -> "API rate limit exceeded. Free tier allows 25 requests per day."
      [] NoSymbol(shape.body) -> "No data available for symbol"
      [] shape.body = "noPercent" -> "TypeError"
      [] OTHER               -> ""

\* the StockQuote built from the body: parseFloat of a missing field is NaN
QuoteBuilt(shape) ==
    CASE QuoteThrown(shape) # "" -> JUndefined
      [] shape.body = "noPrice"  -> JQuoteNaN
      [] OTHER                   -> JQuote

\* getStockQuote from the response on, for one response shape
mapQuoteResponse ==
    /\ last.op = "response"
    /\ last' = [NoCall EXCEPT !.op = "getStockQuote", !.cacheType = "quote",
                              !.via = "upstream", !.resp = last.resp,
                              !.err = QuoteThrown(last.resp),
                              !.ret = QuoteBuilt(last.resp)]
    /\ UNCHANGED <<scope, paidSignals, wlVars, batches, dbVars, svcVars>>

ValidationCacheHitTruthy(cachedData) == Truthy(cachedData)

\* if (cachedData !== null)
ValidationCacheHit(cachedData) == cachedData # JNull

validateSymbolStart(symbol) ==
    LET upperSymbol == toUpperCase(symbol)
        cachedData  == getCacheData(upperSymbol, "validation")
    IN  /\ IF ValidationCacheHit(cachedData)
           THEN /\ last' = Returned("validateSymbol", symbol, "validation", "db", cachedData)
                /\ UNCHANGED pending
           ELSE /\ CanIssue
                /\ Issued(Request("validateSymbol", upperSymbol, ""))
                /\ last' = Suspended("validateSymbol", symbol, "validation")
        /\ UNCHANGED <<scope, paidSignals, wlVars, batches, dbVars, memCache, appVars>>

ValidationErrorNoRateLimit(response) == IF response.ok THEN "" ELSE "http"

\* the error validateSymbol throws for a response, "" when it returns
ValidationError(response) ==
    CASE ~response.ok                                    -> "http"
      [] response.signal = "Error Message"               -> ""
      [] RateLimited(response)                           -> "ratelimit"
      [] OTHER                                           -> ""

\* the boolean validateSymbol returns (and caches) for a response
ValidationAnswer(response) ==
    IF response.signal = "Error Message" THEN JFalse
    ELSE Bool(response.body = "match")

validateSymbolResume(upperSymbol, response) ==
    LET req == Request("validateSymbol", upperSymbol, "")
        err == ValidationError(response)
    IN  /\ InFlight(req)
        /\ Answered(req)
        /\ IF err = ""
           THEN /\ cacheTable' = TableAfterSet(upperSymbol, "validation",
                                               ValidationAnswer(response), CacheTTLHours)
                /\ last' = Resumed("validateSymbol", upperSymbol, "validation",
                                   response, "", ValidationAnswer(response))
           ELSE /\ last' = Resumed("validateSymbol", upperSymbol, "validation",
                                   response, err, JUndefined)
                /\ UNCHANGED cacheTable
        /\ UNCHANGED <<scope, paidSignals, wlVars, batches, now, memCache, appVars>>

SeriesCacheHit(cachedData) == Truthy(cachedData)

getHistoricalDataStart(symbol, timeRange) ==
    LET upperSymbol == toUpperCase(symbol)
        cachedData  == getCacheData(upperSymbol, cacheKey(timeRange))
    IN  /\ IF SeriesCacheHit(cachedData)
           THEN /\ last' = Returned("getHistoricalData", symbol, cacheKey(timeRange),
                                    "db", cachedData)
                /\ UNCHANGED pending
           ELSE /\ CanIssue
                /\ Issued(Request("getHistoricalData", upperSymbol, timeRange))
                /\ last' = Suspended("getHistoricalData", symbol, cacheKey(timeRange))
        /\ UNCHANGED <<scope, paidSignals, wlVars, batches, dbVars, memCache, appVars>>

\* the error getHistoricalData throws for a response, "" when it is a series
SeriesError(response) ==
    CASE ~response.ok                        -> "http"
      [] response.signal = "Error Message"   -> "invalid"
      [] RateLimited(response)               -> "ratelimit"
      [] response.body = "none"              -> "nodata"
      [] OTHER                               -> ""

getHistoricalDataResume(upperSymbol, timeRange, response) ==
    LET req == Request("getHistoricalData", upperSymbol, timeRange)
        err == SeriesError(response)
    IN  /\ InFlight(req)
        /\ Answered(req)
        /\ cacheTable' = IF StoredAfterChecks(err)
                         THEN TableAfterSet(upperSymbol, cacheKey(timeRange),
                                            JSeries(timeRange), CacheTTLHours)
                         ELSE cacheTable
        /\ last' = Resumed("getHistoricalData", upperSymbol, cacheKey(timeRange),
                           response, err,
                           IF err = "" THEN JSeries(timeRange) ELSE JUndefined)
        /\ UNCHANGED <<scope, paidSignals, wlVars, batches, now, memCache, appVars>>

AllTimeRanges == {"1m", "3m", "1y", "5y"}

\* the days subtracted from now for a range
WindowDays(timeRange) ==
    CASE timeRange = "1m" -> 30
      [] timeRange = "3m" -> 90
      [] timeRange = "1y" -> 365
      [] timeRange = "5y" -> 5 * 365

\* new Date(point.date).getTime() of a YYYY-MM-DD key: midnight UTC of the
\* day, in hours
DateInstant(day) == day * HoursPerDay

\* cutoffDate = new Date(now.getTime() - days * 24 * 60 * 60 * 1000)
cutoffDate(timeRange) == now - WindowDays(timeRange) * HoursPerDay

KeptAfterCutoff(point, timeRange) == DateInstant(point.date) > cutoffDate(timeRange)

\* new Date(point.date) >= cutoffDate
Kept(point, timeRange) == DateInstant(point.date) >= cutoffDate(timeRange)

\* Object.entries(timeSeries).map(([date, values]) => ({date, price}))
chartDataOf(timeSeries) ==
    [i \in 1..Len(timeSeries) |-> [date |-> timeSeries[i], price |-> "close"]]

\* .sort((a, b) => new Date(a.date).getTime() - new Date(b.date).getTime());
\* the keys of one object are distinct days
sortByDate(chartData) ==
    CHOOSE sorted \in [1..Len(chartData) -> {chartData[i] : i \in 1..Len(chartData)}] :
        \A i, j \in 1..Len(chartData) :
            i < j => DateInstant(sorted[i].date) < DateInstant(sorted[j].date)

filterByTimeRange(data, timeRange) ==
    SelectSeq(data, LAMBDA point : Kept(point, timeRange))

\* getHistoricalData from the time series of the response to its return value
filteredData(timeSeries, timeRange) ==
    filterByTimeRange(sortByDate(chartDataOf(timeSeries)), timeRange)

\* one response with a time series is converted, sorted and filtered
convertTimeSeries ==
    /\ last.op = "response"
    /\ last' = [NoCall EXCEPT !.op = "getHistoricalData", !.key = last.key,
                              !.cacheType = last.cacheType, !.via = "upstream",
                              !.data = last.data,
                              !.rows = filteredData(last.data, last.key)]
    /\ UNCHANGED <<scope, paidSignals, wlVars, batches, dbVars, svcVars>>

SymbolInputs == {"AAPL", "aapl"}
TimeRanges   == {"1m", "5y"}

NextMarket ==
    \/ \E s \in SymbolInputs : getStockQuoteStart(s)
    \/ \E s \in SymbolInputs : validateSymbolStart(s)
    \/ \E s \in SymbolInputs, r \in TimeRanges : getHistoricalDataStart(s, r)
    \/ \E t \in Symbols, resp \in AVResponses("getStockQuote") :
           getStockQuoteResume(t, resp)
    \/ \E t \in Symbols, resp \in AVResponses("validateSymbol") :
           validateSymbolResume(t, resp)
    \/ \E t \in Symbols, r \in TimeRanges, resp \in AVResponses("getHistoricalData") :
           getHistoricalDataResume(t, r, resp)

----------------------------------------------------------------------------
(* AI-text provider responses: HTTP status and what choices[0].message.content *)
(* holds.                                                                     *)

\* signal "transport": fetch rejects and there is no response at all;
\* body "content_nousage": content without data.usage.cost
AIResponses ==
    {[ok |-> FALSE, signal |-> st, body |-> "none"] : st \in {"429", "500", "transport"}}
    \cup {[ok |-> TRUE, signal |-> "200", body |-> b] :
              b \in {"nochoices", "nocontent", "content", "content_nousage"}}

AIRateLimited(response) == ~response.ok /\ response.signal = "429"

\* the error the response handling throws, "" when there is content to parse
AIError(response) ==
    CASE response.signal = "transport"  -> "transport"
      [] ~response.ok                   -> "http"
      [] response.body = "nochoices"    -> "noresponse"
      [] response.body = "nocontent"    -> "empty"
      [] OTHER                          -> ""

\* data.usage.cost.total_cost, read after the cache write
HasUsage(response) == response.body # "content_nousage"

UsageError(usage) == IF usage THEN "" ELSE "TypeError"

JEvents     == [type |-> "array", val |-> "events"]
JEmptyArray == [type |-> "array", val |-> "empty"]

\* the StockAnalysis object: three sections and the events list
JAnalysis(events) ==
    [type |-> "object",
     val  |-> IF events = JEvents THEN "analysis_events" ELSE "analysis_noevents"]

----------------------------------------------------------------------------
(* sendPaidSignal: the usage report to the metering service.  The function  *)
(* is async and is called without await and without a rejection handler.    *)

NEWS_SIGNAL == "news_summary"
FINANCIAL_EVENT_SIGNAL == "major_events"

SignalNames == {NEWS_SIGNAL, FINANCIAL_EVENT_SIGNAL}

\* how await paidClient.usage.record(...) ends
RecordOutcomes == {"recorded", "rejected"}

CanSignal == BagCardinality(paidSignals) < MaxSignals

\* sendPaidSignal(name, ...) up to its await
SignalSent(name) == paidSignals' = paidSignals (+) SetToBag({name})

\* the rejection of usage.record rejects the promise of sendPaidSignal, which
\* no caller holds: it reaches the process as an unhandled rejection
RejectionEscapes(outcome) ==
    IF outcome = "rejected" THEN "unhandledRejection" ELSE ""

\* usage.record has settled
sendPaidSignalResume(name, outcome) ==
    /\ BagIn(name, paidSignals)
    /\ paidSignals' = paidSignals (-) SetToBag({name})
    /\ last' = [NoCall EXCEPT !.op = "sendPaidSignal", !.key = name,
                              !.via = outcome, !.err = RejectionEscapes(outcome)]
    /\ UNCHANGED <<scope, wlVars, batches, dbVars, svcVars>>

----------------------------------------------------------------------------
(* PerplexityService: parsing of the response text *)

\* the lines a response is made of
BlankLine == "  "
RecentHeader == "1. Recent News:"
EventsHeader == "2. Major Events:"
ValuationHeader == "3. Valuation Assessment:"
PlainBullet == "- Shares rose"
NumberBullet == "- Revenue grew 1.5%"
LongLine == "Analysts expect growth"
ShortLine == "Flat day"
AnalysisLines ==
    {BlankLine, RecentHeader, EventsHeader, ValuationHeader, PlainBullet,
     NumberBullet, LongLine, ShortLine}

\* line.trim()
Trim(line) == IF line = BlankLine THEN "" ELSE line

\* trimmedLine.toLowerCase().includes('recent news') || ...includes('1.')
MentionsRecent(trimmedLine) == trimmedLine \in {RecentHeader, NumberBullet}

\* trimmedLine.toLowerCase().includes('major events') || ...includes('2.')
MentionsEvents(trimmedLine) == trimmedLine = EventsHeader

\* trimmedLine.toLowerCase().includes('valuation') || ...includes('3.')
MentionsValuation(trimmedLine) == trimmedLine = ValuationHeader

\* trimmedLine.startsWith('•') || startsWith('-') || startsWith('*')
StartsWithMarker(trimmedLine) == trimmedLine \in {PlainBullet, NumberBullet}

\* trimmedLine.replace(/^[•\-*]\s*/, '')
StripMarker(trimmedLine) ==
    CASE trimmedLine = PlainBullet  -> "Shares rose"
      [] trimmedLine = NumberBullet -> "Revenue grew 1.5%"
      [] OTHER -> trimmedLine

\* trimmedLine.length > 10
LongerThanTen(trimmedLine) ==
    trimmedLine \in {RecentHeader, EventsHeader, ValuationHeader, PlainBullet,
                     NumberBullet, LongLine}

\* content.split('\n').filter(line => line.trim())
NonBlankLines(content) == SelectSeq(content, LAMBDA line : Trim(line) # "")

NoSections ==
    [currentSection |-> "", sectionContent |-> <<>>, recentNews |-> <<>>,
     majorEvents |-> <<>>, valuationAssessment |-> <<>>]

assignToSection(st) ==
    LET cleanContent == SelectSeq(st.sectionContent, LAMBDA item : Trim(item) # "")
    IN  CASE st.currentSection = "recent" ->
                [st EXCEPT !.recentNews = @ \o cleanContent]
          [] st.currentSection = "events" ->
                [st EXCEPT !.majorEvents = @ \o cleanContent]
          [] st.currentSection = "valuation" ->
                [st EXCEPT !.valuationAssessment = @ \o cleanContent]
          [] OTHER -> st

\* if (currentSection && sectionContent.length > 0) this.assignToSection(...)
AssignOpenSection(st) ==
    IF st.currentSection # "" /\ Len(st.sectionContent) > 0
    THEN assignToSection(st) ELSE st

OpenSection(st, section) ==
    [AssignOpenSection(st) EXCEPT !.currentSection = section, !.sectionContent = <<>>]

\* one pass of the for loop
AfterLine(st, line) ==
    LET trimmedLine == Trim(line)
    IN  CASE MentionsRecent(trimmedLine) -> OpenSection(st, "recent")
          [] MentionsEvents(trimmedLine) -> OpenSection(st, "events")
          [] MentionsValuation(trimmedLine) -> OpenSection(st, "valuation")
          [] StartsWithMarker(trimmedLine) ->
                [st EXCEPT !.sectionContent = Append(@, StripMarker(trimmedLine))]
          [] LongerThanTen(trimmedLine) /\ st.currentSection # "" ->
                [st EXCEPT !.sectionContent = Append(@, trimmedLine)]
          [] OTHER -> st

RECURSIVE AfterLines(_, _)
AfterLines(st, lines) ==
    IF lines = <<>> THEN st
    ELSE AfterLines(AfterLine(st, Head(lines)), Tail(lines))

\* the try block: the loop and the assignment of the last section
Sectioned(content) == AssignOpenSection(AfterLines(NoSections, NonBlankLines(content)))

\* the try block calls string and array methods on a string only: none throws
SectioningThrows(content) == FALSE

\* Math.ceil(allLines.length / 3)
CeilThird(n) == (n + 2) \div 3

\* allLines.slice(from, to)
Slice(lines, from, to) ==
    LET lo == IF from < Len(lines) THEN from ELSE Len(lines)
        hi == IF to < Len(lines) THEN to ELSE Len(lines)
    IN  IF hi > lo THEN SubSeq(lines, lo + 1, hi) ELSE <<>>

TrimAll(lines) == SelectSeq([i \in 1..Len(lines) |-> Trim(lines[i])], LAMBDA line : line # "")

\* the catch block
FallbackThirds(content) ==
    LET allLines == NonBlankLines(content)
        third == CeilThird(Len(allLines))
    IN  [NoSections EXCEPT
            !.recentNews = TrimAll(Slice(allLines, 0, third)),
            !.majorEvents = TrimAll(Slice(allLines, third, third * 2)),
            !.valuationAssessment = TrimAll(Slice(allLines, third * 2, Len(allLines)))]

NoRecentNews == "No recent news available"
NoMajorEvents == "No major events identified"
NoValuation == "Valuation assessment unavailable"

LeftEmpty(section, placeholder) == section

\* if (section.length === 0) section = [placeholder]
FilledIfEmpty(section, placeholder) ==
    IF Len(section) = 0 THEN <<placeholder>> ELSE section

parseAnalysis(content) ==
    LET st == IF SectioningThrows(content) THEN FallbackThirds(content)
              ELSE Sectioned(content)
    IN  [recentNews |-> FilledIfEmpty(st.recentNews, NoRecentNews),
         majorEvents |-> FilledIfEmpty(st.majorEvents, NoMajorEvents),
         valuationAssessment |-> FilledIfEmpty(st.valuationAssessment, NoValuation),
         events |-> <<>>]

\* the response text of one query is parsed
parseAnalysisContent ==
    /\ last.op = "content"
    /\ last' = [NoCall EXCEPT !.op = "parseAnalysis", !.data = last.data,
                              !.ret = parseAnalysis(last.data)]
    /\ UNCHANGED <<scope, paidSignals, wlVars, batches, dbVars, svcVars>>

\* the date text of a line: the day number of a calendar date, ImpossibleDate
\* for a text such as 2024-13-01 that has the digits of a date but is none,
\* NoDate for a line without the digits of a date
ImpossibleDate == 0
NoDate == -1

\* /(\d{4}-\d{2}-\d{2})/
HasDateDigits(line) == line.date # NoDate

\* toLowerCase() of the impact words of the lines
LowerCase(word) ==
    CASE word = "NEGATIVE" -> "negative"
      [] word = "Neutral"  -> "neutral"
      [] OTHER -> word

ImpactTags == {"positive", "negative", "neutral"}

\* /(positive|negative|neutral)/i
HasImpact(line) == LowerCase(line.impact) \in ImpactTags

LongDescription == "Quarterly results ahead of consensus on cloud revenue growth"

\* description.trim().substring(0, 50)
First50(description) ==
    IF description = LongDescription
    THEN "Quarterly results ahead of consensus on cloud reve"
    ELSE description

\* trimmedLine.match(/(\d{4}-\d{2}-\d{2})\s*\|\s*([^|]+)\s*\|\s*(positive|negative|neutral)/i)
Matches(line) == HasDateDigits(line) /\ HasImpact(line)

EventOf(line) ==
    [date |-> line.date, description |-> First50(line.description),
     impact |-> LowerCase(line.impact)]

\* the events pushed by the loop, in the order of the lines
PushedEvents(lines) ==
    LET matching == SelectSeq(lines, Matches)
    IN  [i \in 1..Len(matching) |-> EventOf(matching[i])]

\* new Date(a.date).getTime() is NaN
IsNaNTime(event) == event.date = ImpossibleDate

\* the place of an event in a sorted array: after the events not later than it
RECURSIVE InsertByDate(_, _)
InsertByDate(sorted, event) ==
    IF sorted = <<>> THEN <<event>>
    ELSE IF event.date < Head(sorted).date THEN <<event>> \o sorted
    ELSE <<Head(sorted)>> \o InsertByDate(Tail(sorted), event)

\* events.sort((a, b) => new Date(a.date).getTime() - new Date(b.date).getTime())
\* with numbers for all times: ascending, equal dates in their first order
RECURSIVE SortedByDate(_)
SortedByDate(events) ==
    IF events = <<>> THEN <<>>
    ELSE InsertByDate(SortedByDate(SubSeq(events, 1, Len(events) - 1)),
                      events[Len(events)])

Orderings(events) ==
    {[i \in 1..Len(events) |-> events[p[i]]] :
        p \in {q \in [1..Len(events) -> 1..Len(events)] :
                 \A i, j \in 1..Len(events) : i # j => q[i] # q[j]}}

\* the array after sort: with a NaN time the comparator is not consistent and
\* the order is left to the engine
SortOutcomes(events) ==
    IF \E i \in 1..Len(events) : IsNaNTime(events[i])
    THEN Orderings(events)
    ELSE {SortedByDate(events)}

EventLimit == 10

\* events.slice(0, 10)
FirstEvents(events) ==
    SubSeq(events, 1, IF Len(events) < EventLimit THEN Len(events) ELSE EventLimit)

\* the response text of the events query is parsed
parseFinancialEvents(sorted) ==
    /\ last.op = "eventsContent"
    /\ sorted \in SortOutcomes(PushedEvents(last.data))
    /\ last' = [NoCall EXCEPT !.op = "parseFinancialEvents", !.data = last.data,
                              !.rows = FirstEvents(sorted)]
    /\ UNCHANGED <<scope, paidSignals, wlVars, batches, dbVars, svcVars>>

(* PerplexityService *)

AnalysisLookupSkipped(cachedData) == FALSE

\* if (cachedData) return cachedData
AnalysisCacheHit(cachedData) == Truthy(cachedData)

CacheBypassed(cachedData) == FALSE

EventsCacheHit(cachedData) == Truthy(cachedData)

getStockAnalysisStart(ticker) ==
    LET upperTicker == toUpperCase(ticker)
        cachedData  == getCacheData(upperTicker, "analysis")
    IN  /\ IF AnalysisCacheHit(cachedData)
           THEN /\ last' = Returned("getStockAnalysis", ticker, "analysis", "db", cachedData)
                /\ UNCHANGED pending
           ELSE /\ CanIssue
                /\ Issued(Request("getStockAnalysis", upperTicker, ""))
                /\ last' = Suspended("getStockAnalysis", ticker, "analysis")
        /\ UNCHANGED <<scope, paidSignals, wlVars, batches, dbVars, memCache, appVars>>

\* the response to the analysis query: on content, parseAnalysis and then
\* await this.getFinancialEvents(upperTicker), which answers from the cache
\* or suspends on its own request
getStockAnalysisResume(upperTicker, response) ==
    LET req        == Request("getStockAnalysis", upperTicker, "")
        err        == AIError(response)
        cachedData == getCacheData(upperTicker, "events")
        usageErr   == UsageError(HasUsage(response))
    IN  /\ InFlight(req)
        /\ IF err # ""
           THEN /\ Answered(req)
                /\ last' = Resumed("getStockAnalysis", upperTicker, "analysis",
                                   response, err, JUndefined)
                /\ UNCHANGED <<cacheTable, paidSignals>>
           ELSE IF EventsCacheHit(cachedData)
           THEN /\ Answered(req)
                /\ IF usageErr = ""
                   THEN CanSignal /\ SignalSent(NEWS_SIGNAL)
                   ELSE UNCHANGED paidSignals
                /\ cacheTable' = TableAfterSet(upperTicker, "analysis",
                                               JAnalysis(cachedData), CacheTTLHours)
                /\ last' = Resumed("getStockAnalysis", upperTicker, "analysis",
                                   response, usageErr,
                                   IF usageErr = "" THEN JAnalysis(cachedData)
                                   ELSE JUndefined)
           ELSE /\ pending' = (pending (-) SetToBag({req}))
                              (+) SetToBag({[Request("getFinancialEvents", upperTicker,
                                                     "getStockAnalysis")
                                                EXCEPT !.usage = HasUsage(response)]})
                /\ last' = [Suspended("getFinancialEvents", upperTicker, "events")
                               EXCEPT !.caller = "getStockAnalysis"]
                /\ UNCHANGED <<cacheTable, paidSignals>>
        /\ UNCHANGED <<scope, wlVars, batches, now, memCache, appVars>>

\* getFinancialEvents has returned to getStockAnalysis: analysis.events = events,
\* cache the analysis, read the usage cost of the analysis response, return
getStockAnalysisFinish(upperTicker, events, usage) ==
    LET req == [Request("getStockAnalysis", upperTicker, events.val)
                   EXCEPT !.usage = usage]
    IN  /\ InFlight(req)
        /\ Answered(req)
        /\ cacheTable' = TableAfterSet(upperTicker, "analysis",
                                       JAnalysis(events), CacheTTLHours)
        /\ last' = [Returned("getStockAnalysis", upperTicker, "analysis", "upstream",
                             IF usage THEN JAnalysis(events) ELSE JUndefined)
                       EXCEPT !.err = UsageError(usage)]
        /\ IF usage
           THEN CanSignal /\ SignalSent(NEWS_SIGNAL)
           ELSE UNCHANGED paidSignals
        /\ UNCHANGED <<scope, wlVars, batches, now, memCache, appVars>>

getFinancialEventsStart(ticker) ==
    LET upperTicker == toUpperCase(ticker)
        cachedData  == getCacheData(upperTicker, "events")
    IN  /\ IF EventsCacheHit(cachedData)
           THEN /\ last' = Returned("getFinancialEvents", ticker, "events", "db", cachedData)
                /\ UNCHANGED pending
           ELSE /\ CanIssue
                /\ Issued(Request("getFinancialEvents", upperTicker, ""))
                /\ last' = Suspended("getFinancialEvents", ticker, "events")
        /\ UNCHANGED <<scope, paidSignals, wlVars, batches, dbVars, memCache, appVars>>

\* what the try block of getFinancialEvents throws for a response
EventsThrown(response) ==
    IF AIError(response) # "" THEN AIError(response)
    ELSE UsageError(HasUsage(response))

EventsRethrown(err) == err

\* catch (error) { ...; return [] }
EventsCaught(err) == ""

\* what getFinancialEvents returns for a response: every failure is caught
\* and answered with an empty array
EventsResult(response) ==
    IF EventsThrown(response) = "" THEN JEvents ELSE JEmptyArray

TableAfterAnyAnswer(upperTicker, response) ==
    TableAfterSet(upperTicker, "events", JEvents, CacheTTLHours)

\* the events are cached as soon as they are parsed, before the usage cost
\* is read
TableAfterEvents(upperTicker, response) ==
    IF AIError(response) = ""
    THEN TableAfterSet(upperTicker, "events", JEvents, CacheTTLHours)
    ELSE cacheTable

\* the response to the events query; caller is "" for a direct call,
\* "getStockAnalysis" for the call made inside getStockAnalysis, whose
\* catch block rethrows
getFinancialEventsResume(upperTicker, caller, usage, response) ==
    LET req == [Request("getFinancialEvents", upperTicker, caller)
                   EXCEPT !.usage = usage]
        err == EventsCaught(EventsThrown(response))
    IN  /\ caller \in {"", "getStockAnalysis"}
        /\ InFlight(req)
        /\ cacheTable' = TableAfterEvents(upperTicker, response)
        /\ pending' =
             IF caller = "" \/ err # ""
             THEN pending (-) SetToBag({req})
             ELSE (pending (-) SetToBag({req}))
                  (+) SetToBag({[Request("getStockAnalysis", upperTicker,
                                         EventsResult(response).val)
                                    EXCEPT !.usage = usage]})
        /\ last' = [Resumed("getFinancialEvents", upperTicker, "events", response,
                            err, IF err = "" THEN EventsResult(response)
                                 ELSE JUndefined)
                       EXCEPT !.caller = caller]
        /\ IF EventsThrown(response) = ""
           THEN CanSignal /\ SignalSent(FINANCIAL_EVENT_SIGNAL)
           ELSE UNCHANGED paidSignals
        /\ UNCHANGED <<scope, wlVars, batches, now, memCache, appVars>>

TickerInputs == {"AAPL", "aapl"}

----------------------------------------------------------------------------
(* App: news analysis and financial events of the selected stock, guarded by *)
(* ongoingNewsCalls / ongoingEventsCalls.  stock.ticker is a watchlist key.  *)

MarkerKept(calls, ticker) == calls

\* finally { this.ongoing...Calls.delete(stock.ticker) }
MarkerReleased(calls, ticker) == calls \ {ticker}

Skipped(op, ticker, cacheType) ==
    [NoCall EXCEPT !.op = op, !.key = ticker, !.cacheType = cacheType,
                   !.via = "skipped", !.ret = JUndefined]

\* analysisCleared / eventsCleared: what clearSpecificCache returned to the
\* refresh that starts the call
Cleared(caller, ticker, cacheType) ==
    caller = "refresh" /\ SpecificRows(ticker, cacheType) # {}

\* App.getNewsAnalysisOnly up to its first await, run against table; the
\* caller has just added its marker
NewsCallStart(op, caller, ticker, table) ==
    LET cachedData == getCacheDataIn(table, toUpperCase(ticker), "analysis")
    IN  IF AnalysisCacheHit(cachedData)
        THEN /\ ongoingNewsCalls' =
                   MarkerReleased(ongoingNewsCalls \cup {ticker}, ticker)
             /\ last' = Returned(op, ticker, "analysis", "db", cachedData)
             /\ UNCHANGED pending
        ELSE /\ CanIssue
             /\ ongoingNewsCalls' = ongoingNewsCalls \cup {ticker}
             /\ Issued(Request("getNewsAnalysisOnly", toUpperCase(ticker), caller))
             /\ last' = [Suspended(op, ticker, "analysis")
                            EXCEPT !.existed = Cleared(caller, ticker, "analysis")]

NewsGuardUnchecked(ticker) == FALSE

\* if (this.ongoingNewsCalls.has(stock.ticker))
NewsGuard(ticker) == ticker \in ongoingNewsCalls

loadNewsForSelectedStock(ticker) ==
    /\ IF NewsGuard(ticker)
       THEN /\ last' = Skipped("loadNewsForSelectedStock", ticker, "analysis")
            /\ UNCHANGED <<pending, ongoingNewsCalls>>
       ELSE NewsCallStart("loadNewsForSelectedStock", "load", ticker, cacheTable)
    /\ UNCHANGED <<scope, paidSignals, wlVars, batches, dbVars, memCache, ongoingEventsCalls>>

ClearedRegardless(guarded, ticker, cacheType) == SpecificRows(ticker, cacheType)

\* the rows a refresh deletes: clearSpecificCache is called only after the
\* guard has found no ongoing call
ClearedByRefresh(guarded, ticker, cacheType) ==
    IF guarded THEN {} ELSE SpecificRows(ticker, cacheType)

refreshNewsAnalysis(ticker) ==
    /\ cacheTable' = cacheTable \ ClearedByRefresh(NewsGuard(ticker), ticker, "analysis")
    /\ IF NewsGuard(ticker)
       THEN /\ last' = Skipped("refreshNewsAnalysis", ticker, "analysis")
            /\ UNCHANGED <<pending, ongoingNewsCalls>>
       ELSE /\ NewsCallStart("refreshNewsAnalysis", "refresh", ticker,
                             cacheTable \ SpecificRows(ticker, "analysis"))
    /\ UNCHANGED <<scope, paidSignals, wlVars, batches, now, memCache, ongoingEventsCalls>>

\* the response to getNewsAnalysisOnly's query, then the caller's
\* try / catch / finally
getNewsAnalysisOnlyResume(upperTicker, caller, response) ==
    LET req == Request("getNewsAnalysisOnly", upperTicker, caller)
        err == AIError(response)
    IN  /\ InFlight(req)
        /\ Answered(req)
        /\ cacheTable' =
             IF err = ""
             THEN TableAfterSet(upperTicker, "analysis", JAnalysis(JEmptyArray),
                                CacheTTLHours)
             ELSE cacheTable
        /\ last' = [Resumed("getNewsAnalysisOnly", upperTicker, "analysis", response,
                            err, IF err = "" THEN JAnalysis(JEmptyArray) ELSE JUndefined)
                       EXCEPT !.caller = caller]
        /\ ongoingNewsCalls' = MarkerReleased(ongoingNewsCalls, upperTicker)
        /\ UNCHANGED <<scope, paidSignals, wlVars, batches, now, memCache, ongoingEventsCalls>>

\* PerplexityService.getFinancialEvents up to its first await, run against
\* table; the caller has just added its marker
EventsCallStart(op, caller, ticker, table) ==
    LET cachedData == getCacheDataIn(table, toUpperCase(ticker), "events")
    IN  IF EventsCacheHit(cachedData)
        THEN /\ ongoingEventsCalls' =
                   MarkerReleased(ongoingEventsCalls \cup {ticker}, ticker)
             /\ last' = Returned(op, ticker, "events", "db", cachedData)
             /\ UNCHANGED pending
        ELSE /\ CanIssue
             /\ ongoingEventsCalls' = ongoingEventsCalls \cup {ticker}
             /\ Issued(Request("getFinancialEvents", toUpperCase(ticker), caller))
             /\ last' = [Suspended(op, ticker, "events")
                            EXCEPT !.existed = Cleared(caller, ticker, "events")]

EventsGuardUnchecked(ticker) == FALSE

\* if (this.ongoingEventsCalls.has(stock.ticker))
EventsGuard(ticker) == ticker \in ongoingEventsCalls

loadEventsForSelectedStock(ticker) ==
    /\ IF EventsGuard(ticker)
       THEN /\ last' = Skipped("loadEventsForSelectedStock", ticker, "events")
            /\ UNCHANGED <<pending, ongoingEventsCalls>>
       ELSE EventsCallStart("loadEventsForSelectedStock", "load", ticker, cacheTable)
    /\ UNCHANGED <<scope, paidSignals, wlVars, batches, dbVars, memCache, ongoingNewsCalls>>

refreshEventsAnalysis(ticker) ==
    /\ cacheTable' = cacheTable \ ClearedByRefresh(EventsGuard(ticker), ticker, "events")
    /\ IF EventsGuard(ticker)
       THEN /\ last' = Skipped("refreshEventsAnalysis", ticker, "events")
            /\ UNCHANGED <<pending, ongoingEventsCalls>>
       ELSE /\ EventsCallStart("refreshEventsAnalysis", "refresh", ticker,
                               cacheTable \ SpecificRows(ticker, "events"))
    /\ UNCHANGED <<scope, paidSignals, wlVars, batches, now, memCache, ongoingNewsCalls>>

\* the response to the events query of a guarded load or refresh, then the
\* caller's try / catch / finally
\* (the detached usage report of getFinancialEvents is explored in scope
\* "perplexity")
guardedEventsResume(upperTicker, caller, response) ==
    LET req == Request("getFinancialEvents", upperTicker, caller)
    IN  /\ caller \in {"load", "refresh"}
        /\ InFlight(req)
        /\ Answered(req)
        /\ cacheTable' = TableAfterEvents(upperTicker, response)
        /\ last' = [Resumed("getFinancialEvents", upperTicker, "events", response,
                            EventsCaught(EventsThrown(response)),
                            IF EventsCaught(EventsThrown(response)) = ""
                            THEN EventsResult(response) ELSE JUndefined)
                       EXCEPT !.caller = caller]
        /\ ongoingEventsCalls' = MarkerReleased(ongoingEventsCalls, upperTicker)
        /\ UNCHANGED <<scope, paidSignals, wlVars, batches, now, memCache, ongoingNewsCalls>>

Watched == {"AAPL", "MSFT"}

Callers == {"load", "refresh"}

\* the provider answers, or the request fails, for a pending guarded call
NewsAnswered(t, c) ==
    \E resp \in AIResponses : getNewsAnalysisOnlyResume(t, c, resp)

EventsAnswered(t, c) ==
    \E resp \in AIResponses : guardedEventsResume(t, c, resp)

NextNews ==
    \/ \E t \in Watched : loadNewsForSelectedStock(t)
    \/ \E t \in Watched : refreshNewsAnalysis(t)
    \/ \E t \in Watched : loadEventsForSelectedStock(t)
    \/ \E t \in Watched : refreshEventsAnalysis(t)
    \/ \E t \in Watched, c \in Callers : NewsAnswered(t, c)
    \/ \E t \in Watched, c \in Callers : EventsAnswered(t, c)

----------------------------------------------------------------------------
(* App: the add dialog, deleteSelectedStock and the bulk price refresh.     *)
(* loadWatchlist also starts updateChartForSelectedStock,                   *)
(* loadNewsForSelectedStock and loadEventsForSelectedStock for the selected *)
(* stock; these read and write neither the watchlist table nor the quote    *)
(* and validation entries, and are explored under "market" and "app".       *)

\* quote.price, quote.change, quote.changePercent of a parsed quote
QuoteSnapshot(quote) == [price |-> "101", change |-> "1", changePercent |-> "1%"]

\* where getStockQuote finds the quote: database cache, memory, or fetch
QuoteSource(cache, upperSymbol) ==
    IF QuoteCacheHit(getCacheDataIn(cache, upperSymbol, "quote")) THEN "db"
    ELSE IF MemLive(memCache[upperSymbol]) THEN "memory"
    ELSE "fetch"

QuoteFound(cache, upperSymbol) ==
    IF QuoteSource(cache, upperSymbol) = "db"
    THEN getCacheDataIn(cache, upperSymbol, "quote")
    ELSE memCache[upperSymbol].data

\* the memory and database caches after getStockQuote got its response
MemCacheAfterQuote(upperSymbol, response) ==
    IF QuoteError(response) = ""
    THEN [memCache EXCEPT ![upperSymbol] = [data |-> JQuote, timestamp |-> now]]
    ELSE memCache

TableAfterQuote(upperSymbol, response) ==
    IF QuoteError(response) = ""
    THEN TableAfterSet(upperSymbol, "quote", JQuote, CacheTTLHours)
    ELSE cacheTable

\* const stocks = this.database.getAllStocks()
Lookups(table) == {r.ticker : r \in table}

Misses(table, cache) ==
    {t \in Lookups(table) : QuoteSource(cache, t) = "fetch"}

QuoteRequests(table, cache) ==
    SetToBag({Request("getStockQuote", t, "") : t \in Misses(table, cache)})

\* updateStockPrice for every lookup that was answered without a fetch
RECURSIVE UpdatedPrices(_, _, _)
UpdatedPrices(table, cache, tickers) ==
    IF tickers = {} THEN table
    ELSE LET t == CHOOSE x \in tickers : TRUE
         IN  UpdatedPrices(
                 WatchlistAfterUpdate(table, t, QuoteSnapshot(QuoteFound(cache, t))),
                 cache, tickers \ {t})

ErrorDropped(errorCount) == errorCount

\* catch (error) { errorCount++ }
ErrorCounted(errorCount) == errorCount + 1

\* the promises of stocks.map(...) with the two counters of the call
BatchAtStart(table, cache) ==
    [outcome      |-> [t \in Lookups(table) |->
                          IF t \in Misses(table, cache) THEN "waiting" ELSE "ok"],
     successCount |-> Cardinality(Lookups(table) \ Misses(table, cache)),
     errorCount   |-> 0]

\* await Promise.all(updatePromises) is over
Settled(batch) == \A t \in DOMAIN batch.outcome : batch.outcome[t] # "waiting"

BatchAfter(batch, upperSymbol, err) ==
    IF err = ""
    THEN [batch EXCEPT !.outcome[upperSymbol] = "ok",
                       !.successCount = @ + 1]
    ELSE [batch EXCEPT !.outcome[upperSymbol] = "failed",
                       !.errorCount = ErrorCounted(@)]

\* the summary message, shown once all lookups are settled
SummaryOf(batch) ==
    IF Settled(batch)
    THEN [shown |-> TRUE, n |-> Cardinality(DOMAIN batch.outcome),
          successCount |-> batch.successCount, errorCount |-> batch.errorCount,
          failed |-> {t \in DOMAIN batch.outcome : batch.outcome[t] = "failed"}]
    ELSE NoSummary

\* refreshStockPrices up to its await, on the rows in table, with the
\* requests in base already in flight
RefreshEffects(table, cache, base) ==
    /\ BagCardinality(base) + Cardinality(Misses(table, cache)) <= MaxPending
    /\ watchlist' = UpdatedPrices(table, cache, Lookups(table) \ Misses(table, cache))
    /\ pending' = base (+) QuoteRequests(table, cache)
    /\ batches' = IF Settled(BatchAtStart(table, cache))
                  THEN batches
                  ELSE batches (+) SetToBag({BatchAtStart(table, cache)})

refreshStockPrices ==
    /\ RefreshEffects(watchlist, cacheTable, pending)
    /\ last' = [NoCall EXCEPT !.op = "refreshStockPrices", !.via = "start",
                              !.summary = SummaryOf(BatchAtStart(watchlist, cacheTable))]
    /\ UNCHANGED <<scope, paidSignals, nextId, dbVars, memCache, appVars>>

\* one getStockQuote of a refresh gets its response; the refresh goes on to
\* its summary when this was the last one
refreshQuoteAnswered(batch, upperSymbol, response) ==
    LET req   == Request("getStockQuote", upperSymbol, "")
        err   == QuoteError(response)
        after == BatchAfter(batch, upperSymbol, err)
    IN  /\ BagIn(batch, batches)
        /\ upperSymbol \in DOMAIN batch.outcome
        /\ batch.outcome[upperSymbol] = "waiting"
        /\ InFlight(req)
        /\ Answered(req)
        /\ memCache' = MemCacheAfterQuote(upperSymbol, response)
        /\ cacheTable' = TableAfterQuote(upperSymbol, response)
        /\ watchlist' = IF err = ""
                        THEN WatchlistAfterUpdate(watchlist, upperSymbol,
                                                  QuoteSnapshot(JQuote))
                        ELSE watchlist
        /\ batches' = (batches (-) SetToBag({batch}))
                      (+) (IF Settled(after) THEN EmptyBag ELSE SetToBag({after}))
        /\ last' = [NoCall EXCEPT !.op = "refreshStockPrices", !.key = upperSymbol,
                                  !.via = "upstream", !.err = err,
                                  !.summary = SummaryOf(after)]
        /\ UNCHANGED <<scope, paidSignals, nextId, now, appVars>>

\* loadWatchlist on the rows in table
LoadEffects(table, cache, base) ==
    IF table = {}
    THEN /\ watchlist' = table
         /\ pending' = base
         /\ UNCHANGED batches
    ELSE RefreshEffects(table, cache, base)

NeverRejected(isValid) == FALSE

\* if (!isValid)
Rejected(isValid) == ~Truthy(isValid)

\* if (this.database.addStock(ticker)) { this.loadWatchlist(); ... }
AddAndReload(ticker, cache, base) ==
    IF addStockOk(ticker)
    THEN /\ nextId <= MaxId
         /\ nextId' = NextIdAfterAdd(ticker)
         /\ LoadEffects(WatchlistAfterAdd(ticker), cache, base)
    ELSE /\ pending' = base
         /\ UNCHANGED <<watchlist, nextId, batches>>

Dialog(ticker, via, err, isValid, added) ==
    [NoCall EXCEPT !.op = "showAddStockDialog", !.key = ticker, !.via = via,
                   !.err = err, !.ret = isValid, !.added = added]

\* the callback of the prompt, up to the end or to await validateSymbol
showAddStockDialog(value) ==
    LET ticker     == toUpperCase(value)
        cachedData == getCacheData(ticker, "validation")
    IN  /\ IF hasStock(ticker)
           THEN /\ last' = Dialog(ticker, "present", "", JUndefined, FALSE)
                /\ UNCHANGED <<wlVars, pending, batches>>
           ELSE IF ValidationCacheHit(cachedData)
           THEN IF Rejected(cachedData)
                THEN /\ last' = Dialog(ticker, "db", "", cachedData, FALSE)
                     /\ UNCHANGED <<wlVars, pending, batches>>
                ELSE /\ AddAndReload(ticker, cacheTable, pending)
                     /\ last' = Dialog(ticker, "db", "", cachedData, addStockOk(ticker))
           ELSE /\ CanIssue
                /\ Issued(Request("validateSymbol", ticker, "add"))
                /\ last' = Dialog(ticker, "fetch", "", JUndefined, FALSE)
                /\ UNCHANGED <<wlVars, batches>>
        /\ UNCHANGED <<scope, paidSignals, dbVars, memCache, appVars>>

\* the callback after await validateSymbol(ticker)
addValidationAnswered(ticker, response) ==
    LET req     == Request("validateSymbol", ticker, "add")
        err     == ValidationError(response)
        isValid == IF err = "" THEN ValidationAnswer(response) ELSE JUndefined
        cache   == IF err = ""
                   THEN TableAfterSet(ticker, "validation", isValid, CacheTTLHours)
                   ELSE cacheTable
    IN  /\ InFlight(req)
        /\ cacheTable' = cache
        /\ IF err # "" \/ Rejected(isValid)
           THEN /\ Answered(req)
                /\ last' = Dialog(ticker, "upstream", err, isValid, FALSE)
                /\ UNCHANGED <<wlVars, batches>>
           ELSE /\ AddAndReload(ticker, cache, pending (-) SetToBag({req}))
                /\ last' = Dialog(ticker, "upstream", "", isValid, addStockOk(ticker))
        /\ UNCHANGED <<scope, paidSignals, now, memCache, appVars>>

\* the d key on the row selectedIndex of the list
deleteSelectedStock(selectedIndex) ==
    LET stocks == getAllStocks
        stock  == stocks[selectedIndex + 1]
    IN  /\ IF Len(stocks) = 0 \/ selectedIndex >= Len(stocks)
           THEN /\ last' = [NoCall EXCEPT !.op = "deleteSelectedStock",
                                          !.ret = JFalse]
                /\ UNCHANGED <<watchlist, pending, batches>>
           ELSE /\ LoadEffects(watchlist \ RemovedRows(watchlist, stock.ticker),
                               cacheTable, pending)
                /\ last' = [NoCall EXCEPT !.op = "deleteSelectedStock",
                                          !.key = stock.ticker, !.ret = JTrue]
        /\ UNCHANGED <<scope, paidSignals, nextId, dbVars, memCache, appVars>>

\* the batches a response for upperSymbol can belong to
WaitingBatches(upperSymbol) ==
    {b \in BagToSet(batches) :
        upperSymbol \in DOMAIN b.outcome /\ b.outcome[upperSymbol] = "waiting"}

SelectedIndexes == {0, 1}

----------------------------------------------------------------------------
(* The database driven directly by a caller *)

StoreKeys     == {"AAPL", "aapl", "MSFT"}
StoreTypes    == {"analysis", "events"}
StorePayloads == {JFalse, JQuote, JNaN, JUndefined}
StoreTTLs     == {24}

Init ==
    /\ now = 0
    /\ cacheTable = {}
    /\ last = NoCall
    /\ memCache = [s \in Symbols |-> NoEntry]
    /\ pending = EmptyBag
    /\ ongoingNewsCalls = {}
    /\ ongoingEventsCalls = {}
    /\ scope \in Scopes
    /\ watchlist = {}
    /\ nextId = 1
    /\ batches = EmptyBag
    /\ paidSignals = EmptyBag

NextStore ==
    \/ \E k \in StoreKeys, c \in StoreTypes, p \in StorePayloads, h \in StoreTTLs :
           /\ Cardinality(InsertOrReplace(cacheTable, CacheRow(k, c, p, h))) <= MaxRows
           /\ setCacheData(k, c, p, h)
    \/ \E k \in StoreKeys, c \in StoreTypes : CallGetCacheData(k, c)
    \/ \E k \in StoreKeys, c \in StoreTypes : clearSpecificCache(k, c)
    \/ clearExpiredCache
    \/ Tick

WatchKeys == {"AAPL", "aapl", "MSFT"}

Snapshots ==
    {[price |-> "101", change |-> "1", changePercent |-> "1%"],
     [price |-> "99", change |-> "-1", changePercent |-> "-1%"]}

\* the watchlist table driven directly by a caller
NextWatchStore ==
    \/ \E k \in WatchKeys : nextId <= MaxId /\ addStock(k)
    \/ \E k \in WatchKeys : removeStock(k)
    \/ \E k \in WatchKeys, q \in Snapshots : updateStockPrice(k, q)
    \/ \E k \in WatchKeys : CallHasStock(k)
    \/ CallGetAllStocks
    \/ Tick

\* the methods of WatchlistDatabase on both tables, within one instant
NextTables ==
    \/ \E k \in WatchKeys : nextId <= MaxId /\ addStock(k)
    \/ \E k \in WatchKeys : removeStock(k)
    \/ \E k \in WatchKeys, q \in Snapshots : updateStockPrice(k, q)
    \/ CallGetAllStocks
    \/ \E k \in StoreKeys, c \in StoreTypes, p \in {JFalse, JQuote}, h \in StoreTTLs :
           /\ Cardinality(InsertOrReplace(cacheTable, CacheRow(k, c, p, h))) <= MaxRows
           /\ setCacheData(k, c, p, h)
    \/ \E k \in StoreKeys, c \in StoreTypes : CallGetCacheData(k, c)
    \/ \E k \in StoreKeys, c \in StoreTypes : clearSpecificCache(k, c)
    \/ clearExpiredCache

InitWatchlist == Init /\ scope = "watchlist"

\* the watchlist flows of the App with the startup sweep; the expiry of the
\* quote and validation entries over time is explored under "market"
NextWatchlist ==
    \/ \E v \in WatchKeys : showAddStockDialog(v)
    \/ \E t \in Symbols, resp \in AVResponses("validateSymbol") :
           addValidationAnswered(t, resp)
    \/ \E i \in SelectedIndexes : deleteSelectedStock(i)
    \/ refreshStockPrices
    \/ \E t \in Symbols, resp \in AVResponses("getStockQuote") :
           \E b \in WaitingBatches(t) : refreshQuoteAnswered(b, t, resp)
    \/ clearExpiredCache

SpecWatchlist == InitWatchlist /\ [][NextWatchlist]_vars

InitMarket == Init /\ scope = "market"

SpecWatchStore == InitMarket /\ [][NextWatchStore]_vars

InitNews == Init /\ scope = "app"

SpecTables == InitMarket /\ [][NextTables]_vars

SpecStore == InitMarket /\ [][NextStore]_vars

\* the market-data adapter with the startup sweep and the passing of time
NextMarketTimed == NextMarket \/ clearExpiredCache \/ Tick

SpecMarket == InitMarket /\ [][NextMarketTimed]_vars

\* getStockQuote applied to every response shape
InitQuoteShapes ==
    /\ \E shape \in QuoteShapes :
           last = [NoCall EXCEPT !.op = "response", !.resp = shape]
    /\ now = 0
    /\ cacheTable = {}
    /\ memCache = [s \in Symbols |-> NoEntry]
    /\ pending = EmptyBag
    /\ ongoingNewsCalls = {}
    /\ ongoingEventsCalls = {}
    /\ scope = "market"
    /\ watchlist = {}
    /\ nextId = 1
    /\ batches = EmptyBag
    /\ paidSignals = EmptyBag

SpecQuoteShapes == InitQuoteShapes /\ [][mapQuoteResponse]_vars

\* the day of the fetch, and the hours of that day at which it happens
FetchDay == 2000
FetchHours == {0, 12}

\* the days a time series has points for: around the cutoff of the range, and
\* the day of the fetch
SeriesDays(timeRange) ==
    {FetchDay - WindowDays(timeRange) - 1, FetchDay - WindowDays(timeRange),
     FetchDay - WindowDays(timeRange) + 1, FetchDay}

\* the time series of a response: its distinct days in the order of the JSON
TimeSeriesOf(timeRange) ==
    {ts \in UNION {[1..n -> SeriesDays(timeRange)] : n \in 0..MaxPoints} :
        \A i, j \in 1..Len(ts) : i # j => ts[i] # ts[j]}

\* getHistoricalData applied to every time series, range and fetch time
InitSeries ==
    /\ \E timeRange \in AllTimeRanges :
         \E ts \in TimeSeriesOf(timeRange) :
           last = [NoCall EXCEPT !.op = "response", !.key = timeRange,
                                 !.cacheType = cacheKey(timeRange), !.data = ts]
    /\ \E h \in FetchHours : now = FetchDay * HoursPerDay + h
    /\ cacheTable = {}
    /\ memCache = [s \in Symbols |-> NoEntry]
    /\ pending = EmptyBag
    /\ ongoingNewsCalls = {}
    /\ ongoingEventsCalls = {}
    /\ scope = "market"
    /\ watchlist = {}
    /\ nextId = 1
    /\ batches = EmptyBag
    /\ paidSignals = EmptyBag

SpecSeries == InitSeries /\ [][convertTimeSeries]_vars

\* data.choices[0].message.content: a non-empty text, as its lines
Contents == UNION {[1..n -> AnalysisLines] : n \in 1..MaxLines}

\* parseAnalysis applied to every response text
InitAnalysis ==
    /\ \E content \in Contents :
         last = [NoCall EXCEPT !.op = "content", !.data = content]
    /\ now = 0
    /\ cacheTable = {}
    /\ memCache = [s \in Symbols |-> NoEntry]
    /\ pending = EmptyBag
    /\ ongoingNewsCalls = {}
    /\ ongoingEventsCalls = {}
    /\ scope = "perplexity"
    /\ watchlist = {}
    /\ nextId = 1
    /\ batches = EmptyBag
    /\ paidSignals = EmptyBag

SpecAnalysis == InitAnalysis /\ [][parseAnalysisContent]_vars

\* the lines an events response starts with
DatedLines ==
    {[date |-> 200, description |-> "Q1 earnings beat", impact |-> "positive"],
     [date |-> 10, description |-> "Product launch", impact |-> "NEGATIVE"],
     [date |-> 10, description |-> "Guidance", impact |-> "mixed"],
     [date |-> NoDate, description |-> "not a valid line", impact |-> ""]}
ImpossibleLine ==
    [date |-> ImpossibleDate, description |-> "Stock split", impact |-> "Neutral"]

\* n more lines with an event each, the latest first
MoreEvents(n) ==
    [i \in 1..n |-> [date |-> 100 - i, description |-> LongDescription,
                     impact |-> "Neutral"]]

\* short texts of any lines, and longer texts whose dates are calendar dates
EventContents ==
    UNION {[1..n -> DatedLines \cup {ImpossibleLine}] : n \in 1..MaxHead}
    \cup {head \o MoreEvents(n) :
            head \in UNION {[1..k -> DatedLines] : k \in 0..MaxHead}, n \in 1..MaxFiller}

\* parseFinancialEvents applied to every response text
InitEvents ==
    /\ \E content \in EventContents :
         last = [NoCall EXCEPT !.op = "eventsContent", !.data = content]
    /\ now = 0
    /\ cacheTable = {}
    /\ memCache = [s \in Symbols |-> NoEntry]
    /\ pending = EmptyBag
    /\ ongoingNewsCalls = {}
    /\ ongoingEventsCalls = {}
    /\ scope = "perplexity"
    /\ watchlist = {}
    /\ nextId = 1
    /\ batches = EmptyBag
    /\ paidSignals = EmptyBag

NextEvents == \E sorted \in SortOutcomes(PushedEvents(last.data)) : parseFinancialEvents(sorted)

SpecEvents == InitEvents /\ [][NextEvents]_vars

MarketCategories == {"quote", "validation", "historical_1m", "historical_5y"}

\* the market-data adapter with a caller that also invalidates single entries
NextMarketInvalidated ==
    \/ NextMarketTimed
    \/ \E s \in SymbolInputs, c \in MarketCategories : clearSpecificCache(s, c)

SpecInvalidate == InitMarket /\ [][NextMarketInvalidated]_vars

\* the guarded operations of the App
NextNewsTimed == NextNews \/ clearExpiredCache \/ Tick

SpecNews == InitNews /\ [][NextNewsTimed]_vars

\* the same, with every pending upstream call eventually answered or failed
SpecNewsLive ==
    /\ InitNews
    /\ [][NextNewsTimed]_vars
    /\ \A t \in Watched, c \in Callers :
           /\ WF_vars(NewsAnswered(t, c))
           /\ WF_vars(EventsAnswered(t, c))

\* The two adapters and the App share no cache row, no in-memory entry and
\* no request with the component of another scope, so the program is
\* explored one component per behaviour.
Next ==
    \/ \E s \in SymbolInputs : scope = "market" /\ getStockQuoteStart(s)
    \/ \E s \in SymbolInputs : scope = "market" /\ validateSymbolStart(s)
    \/ \E s \in SymbolInputs, r \in TimeRanges :
           scope = "market" /\ getHistoricalDataStart(s, r)
    \/ \E t \in Symbols, resp \in AVResponses("getStockQuote") :
           scope = "market" /\ getStockQuoteResume(t, resp)
    \/ \E t \in Symbols, resp \in AVResponses("validateSymbol") :
           scope = "market" /\ validateSymbolResume(t, resp)
    \/ \E t \in Symbols, r \in TimeRanges, resp \in AVResponses("getHistoricalData") :
           scope = "market" /\ getHistoricalDataResume(t, r, resp)
    \/ \E t \in TickerInputs : scope = "perplexity" /\ getStockAnalysisStart(t)
    \/ \E t \in TickerInputs : scope = "perplexity" /\ getFinancialEventsStart(t)
    \/ \E t \in Symbols, resp \in AIResponses :
           scope = "perplexity" /\ getStockAnalysisResume(t, resp)
    \/ \E t \in Symbols, ev \in {JEvents, JEmptyArray}, u \in BOOLEAN :
           scope = "perplexity" /\ getStockAnalysisFinish(t, ev, u)
    \/ \E t \in Symbols, c \in {"", "getStockAnalysis"}, u \in BOOLEAN,
           resp \in AIResponses :
           scope = "perplexity" /\ getFinancialEventsResume(t, c, u, resp)
    \/ \E n \in SignalNames, o \in RecordOutcomes :
           scope = "perplexity" /\ sendPaidSignalResume(n, o)
    \/ \E t \in Watched : scope = "app" /\ loadNewsForSelectedStock(t)
    \/ \E t \in Watched : scope = "app" /\ refreshNewsAnalysis(t)
    \/ \E t \in Watched : scope = "app" /\ loadEventsForSelectedStock(t)
    \/ \E t \in Watched : scope = "app" /\ refreshEventsAnalysis(t)
    \/ \E t \in Watched, c \in Callers : scope = "app" /\ NewsAnswered(t, c)
    \/ \E t \in Watched, c \in Callers : scope = "app" /\ EventsAnswered(t, c)
    \/ \E v \in WatchKeys : scope = "watchlist" /\ showAddStockDialog(v)
    \/ \E t \in Symbols, resp \in AVResponses("validateSymbol") :
           scope = "watchlist" /\ addValidationAnswered(t, resp)
    \/ \E i \in SelectedIndexes : scope = "watchlist" /\ deleteSelectedStock(i)
    \/ scope = "watchlist" /\ refreshStockPrices
    \/ \E t \in Symbols, resp \in AVResponses("getStockQuote") :
           \E b \in WaitingBatches(t) :
               scope = "watchlist" /\ refreshQuoteAnswered(b, t, resp)
    \/ clearExpiredCache
    \/ Tick

Spec == Init /\ [][Next]_vars

----------------------------------------------------------------------------
(* Claims about the cache table *)

\* the spellings of one entity key
CaseVariants == {{"AAPL", "aapl"}, {"MSFT", "msft"}}

SameEntity(k1, k2) == \E S \in CaseVariants : k1 \in S /\ k2 \in S

PutSucceeded == last.op = "setCacheData" /\ last.ret = JTrue

\* C1: right after a successful put of a JSON-serializable payload (no time
\* elapsed, nothing invalidated), get of the same entity key in any letter
\* case and the same category returns a payload equal to the one put.
C1_GetAfterPut ==
    (PutSucceeded /\ JSONSerializable(last.data)) =>
        \A k \in StoreKeys :
            SameEntity(k, last.key) => getCacheData(k, last.cacheType) = last.data

C1_Witness ==
    /\ PutSucceeded
    /\ last.key = "aapl"
    /\ last.data = JQuote
    /\ getCacheData("AAPL", last.cacheType) = JQuote

\* C2: an entry written at t0 with ttlHours = h is absent for get at every
\* time t >= t0 + h and present (with its payload) at every t < t0 + h,
\* swept or not.
C2_ExpiryByInstant ==
    \A r \in cacheTable :
        getCacheData(r.ticker, r.cache_type) =
            IF now >= InstantOf(r.expires_at) THEN JNull ELSE JSONparse(r.data)

\* C6: invalidate(entityKey, categoryA) removes the (entityKey, categoryA) row
\* and nothing else: every other row stays as it was, and get of every other
\* (entityKey, category) returns what it returned before.
C6_InvalidateFrame ==
    [][last'.op = "clearSpecificCache" =>
         /\ cacheTable' =
              {r \in cacheTable :
                  ~SameKey(r, toUpperCase(last'.key), last'.cacheType)}
         /\ \A k \in StoreKeys, c \in StoreTypes :
              ~(SameEntity(k, last'.key) /\ c = last'.cacheType) =>
                  getCacheData(k, c)' = getCacheData(k, c)]_vars

C6_Witness ==
    /\ last.op = "clearSpecificCache"
    /\ last.key = "AAPL"
    /\ last.cacheType = "analysis"
    /\ last.ret = JTrue
    /\ getCacheData("AAPL", "events") = JQuote

\* C7: sweepExpired deletes exactly the rows whose expiry instant is at or
\* before the current time, keeps the others, and returns how many it deleted.
C7_SweepByInstant ==
    [][last'.op = "clearExpiredCache" =>
         /\ cacheTable' = {r \in cacheTable : InstantOf(r.expires_at) > now}
         /\ last'.count = Cardinality(cacheTable \ cacheTable')]_vars

\* C8: the cache table holds at most one row per (uppercase entityKey,
\* category), and a successful put leaves, for its pair, exactly the row with
\* the payload and the expiry of that put.
C8_OneRowPerKey ==
    /\ \A r1, r2 \in cacheTable :
          SameKey(r1, r2.ticker, r2.cache_type) => r1 = r2
    /\ \A r \in cacheTable : r.ticker = toUpperCase(r.ticker)
    /\ PutSucceeded =>
          SpecificRows(last.key, last.cacheType) =
              {[ticker     |-> toUpperCase(last.key),
                cache_type |-> last.cacheType,
                data       |-> JSONstringify(last.data),
                expires_at |-> toISOString(now + last.ttl)]}

C8_Witness ==
    /\ PutSucceeded
    /\ last.existed
    /\ now > 0
    /\ Cardinality(cacheTable) = 2

NewsInFlight(t) ==
    CopiesIn(Request("getNewsAnalysisOnly", t, "load"), pending)
    + CopiesIn(Request("getNewsAnalysisOnly", t, "refresh"), pending)

EventsInFlight(t) ==
    CopiesIn(Request("getFinancialEvents", t, "load"), pending)
    + CopiesIn(Request("getFinancialEvents", t, "refresh"), pending)

\* C3: a news-analysis request (load or refresh) for a ticker that already
\* has a news-analysis call in flight returns without issuing a request,
\* without touching the cache or the marker; at most one upstream analysis
\* call per ticker is ever in flight.
C3_SingleFlight ==
    [][ /\ \A t \in Watched : NewsInFlight(t)' <= 1
        /\ ( /\ last'.op \in {"loadNewsForSelectedStock", "refreshNewsAnalysis"}
             /\ NewsInFlight(last'.key) = 1 )
           => /\ last'.via = "skipped"
              /\ pending' = pending
              /\ cacheTable' = cacheTable
              /\ ongoingNewsCalls' = ongoingNewsCalls ]_vars

C3_Witness ==
    /\ last.op = "refreshNewsAnalysis"
    /\ last.key = "AAPL"
    /\ last.via = "skipped"
    /\ pending = SetToBag({Request("getNewsAnalysisOnly", "AAPL", "load")})
    /\ getCacheData("AAPL", "analysis") = JNull

\* C4: a ticker is in an in-flight set exactly while a guarded operation for
\* it awaits its upstream call, whatever way the earlier ones ended (result,
\* upstream error, cache hit); and when every upstream call is eventually
\* answered or fails, every marker is eventually removed.
C4_MarkersReleased ==
    /\ [](/\ ongoingNewsCalls = {t \in Watched : NewsInFlight(t) > 0}
          /\ ongoingEventsCalls = {t \in Watched : EventsInFlight(t) > 0})
    /\ \A t \in Watched : (t \in ongoingNewsCalls) ~> (t \notin ongoingNewsCalls)
    /\ \A t \in Watched : (t \in ongoingEventsCalls) ~> (t \notin ongoingEventsCalls)

C4_Witness ==
    /\ last.op = "getNewsAnalysisOnly"
    /\ last.err = "http"
    /\ last.key = "AAPL"
    /\ ongoingNewsCalls = {}
    /\ ongoingEventsCalls = {"MSFT"}

\* rows whose expiry instant lies after the current instant
UnexpiredRows(table, ticker, cacheType) ==
    {r \in table : /\ SameKey(r, toUpperCase(ticker), cacheType)
                   /\ now < InstantOf(r.expires_at)}

\* a pending record that stands for an upstream network call
UpstreamRequest(req) == ~(req.op = "getStockAnalysis" /\ req.arg # "")

CategoryOf(req) ==
    CASE req.op = "getStockQuote"       -> {"quote"}
      [] req.op = "validateSymbol"      -> {"validation"}
      [] req.op = "getHistoricalData"   -> {cacheKey(req.arg)}
      [] req.op = "getFinancialEvents"  -> {"events"}
      [] OTHER                          -> {"analysis"}

\* C5: an adapter operation invoked while the cache holds an unexpired entry
\* for its (key, category) returns that entry's payload and issues no
\* upstream call; and a step issues an upstream call only when the lookup
\* for the call's (key, category) is absent.
C5_CacheFirst ==
    [][ /\ ( /\ last'.via \in {"db", "memory", "fetch"}
             /\ UnexpiredRows(cacheTable', last'.key, last'.cacheType) # {} )
           => /\ last'.via = "db"
              /\ \A r \in UnexpiredRows(cacheTable', last'.key, last'.cacheType) :
                     last'.ret = JSONparse(r.data)
              /\ pending' = pending
        /\ \A req \in BagToSet(pending') :
              ( /\ UpstreamRequest(req)
                /\ CopiesIn(req, pending') > CopiesIn(req, pending) )
              => \A c \in CategoryOf(req) :
                     getCacheDataIn(cacheTable', req.ticker, c) = JNull ]_vars

C5_Witness ==
    /\ last.op = "getFinancialEvents"
    /\ last.key = "aapl"
    /\ last.via = "db"
    /\ last.ret = JEvents
    /\ pending = EmptyBag

NegativeRows ==
    {r \in cacheTable : r.cache_type = "validation" /\ r.data = JSONstringify(JFalse)}

ValidationsInFlight(t) == CopiesIn(Request("validateSymbol", t, ""), pending)

\* a negative answer from upstream is stored for the next 24 hours
NegativeStored ==
    ( /\ last'.op = "validateSymbol"
      /\ last'.via = "upstream"
      /\ last'.err = ""
      /\ last'.ret = JFalse )
    => CacheRow(last'.key, "validation", JFalse, CacheTTLHours) \in cacheTable'

\* a validateSymbol invoked while the negative entry is within its TTL
\* returns false from the cache and issues no upstream call
NegativeAnswered ==
    ( /\ last'.op = "validateSymbol"
      /\ last'.via \in {"db", "fetch"}
      /\ \E r \in NegativeRows :
             r.ticker = toUpperCase(last'.key) /\ now < InstantOf(r.expires_at) )
    => /\ last'.via = "db"
       /\ last'.ret = JFalse
       /\ pending' = pending

\* the negative entry r is still there, or renewed, after the step
NegativeKept(r) ==
    \E r2 \in cacheTable' :
        /\ SameKey(r2, r.ticker, "validation")
        /\ r2.data = r.data
        /\ InstantOf(r2.expires_at) >= InstantOf(r.expires_at)

AnalysisContinuations(t) ==
    {[Request("getStockAnalysis", t, ev.val) EXCEPT !.usage = u] :
         ev \in {JEvents, JEmptyArray}, u \in BOOLEAN}

\* C11: getFinancialEvents never raises; for an HTTP error, empty choices,
\* empty content or a transport failure it returns an empty sequence and
\* writes nothing; when it was called from getStockAnalysis, getStockAnalysis
\* goes on, caches the analysis (with the events it was given) and, its own
\* response being complete, returns it.
C11_EventsNeverRaise ==
    [][ /\ ( last'.op = "getFinancialEvents" /\ last'.via = "upstream" )
           => /\ last'.err = ""
              /\ last'.ret \in {JEvents, JEmptyArray}
              /\ AIError(last'.resp) # ""
                 => /\ last'.ret = JEmptyArray
                    /\ cacheTable' = cacheTable
              /\ last'.caller = "getStockAnalysis"
                 => \E c \in AnalysisContinuations(last'.key) :
                        /\ CopiesIn(c, pending') = CopiesIn(c, pending) + 1
                        /\ c.arg = last'.ret.val
        /\ \A t \in Symbols : \A c \in AnalysisContinuations(t) :
              CopiesIn(c, pending') < CopiesIn(c, pending)
              => /\ \E r \in cacheTable' :
                        /\ SameKey(r, t, "analysis")
                        /\ r.data.body \in {"analysis_events", "analysis_noevents"}
                        /\ InstantOf(r.expires_at) = now + CacheTTLHours
                 /\ c.usage => ( /\ last'.err = ""
                                 /\ last'.ret.type = "object"
                                 /\ last'.op = "getStockAnalysis" ) ]_vars

C11_Witness ==
    /\ last.op = "getStockAnalysis"
    /\ last.via = "upstream"
    /\ last.ret = JAnalysis(JEmptyArray)
    /\ getCacheData("AAPL", "analysis") = JAnalysis(JEmptyArray)
    /\ getCacheData("AAPL", "events") = JNull

EventsRows(table) == {r \in table : r.cache_type = "events"}

\* the financial-events requests issued from inside getStockAnalysis
NestedEventsRequests(t) ==
    {[Request("getFinancialEvents", t, "getStockAnalysis") EXCEPT !.usage = u] :
         u \in BOOLEAN}

\* C12: an analysis call that misses the cache issues the analysis query
\* only: no financial-events query is ever issued on behalf of an analysis
\* call, and the `events` rows are created or modified only by a
\* getFinancialEvents call of its own (the sweep may delete them).
C12_AnalysisSingleQuery ==
    [][ /\ \A t \in Symbols : \A q \in NestedEventsRequests(t) :
               CopiesIn(q, pending') <= CopiesIn(q, pending)
        /\ ( EventsRows(cacheTable') \ EventsRows(cacheTable) # {} )
           => ( /\ last'.op = "getFinancialEvents"
                /\ last'.via = "upstream"
                /\ last'.caller # "getStockAnalysis" ) ]_vars

KeyIn(table, key) == \E r \in table : SameEntity(r.ticker, key)

InWatchlist(key) == KeyIn(watchlist, key)

\* C13: addStock for a key that is already in the watchlist, in any letter
\* case, returns false and leaves the table and what getAllStocks returns
\* (rows, order, added_at, snapshots) unchanged.
C13_DuplicateAddRejected ==
    [][ ( last'.op = "addStock" /\ InWatchlist(last'.key) )
        => /\ last'.ret = JFalse
           /\ watchlist' = watchlist
           /\ getAllStocks' = getAllStocks ]_vars

C13_Witness ==
    /\ last.op = "addStock"
    /\ last.key = "aapl"
    /\ last.ret = JFalse
    /\ Len(getAllStocks) = 2
    /\ getAllStocks[2].ticker = "AAPL"

\* C14: removeStock of an absent key returns false and changes nothing; of
\* a present key it returns true, getAllStocks loses exactly that entry with
\* the others in the same relative order, and the key is absent afterwards,
\* so that a repeated removeStock returns false.
C14_Remove ==
    [][ last'.op = "removeStock"
        => /\ ~InWatchlist(last'.key)
              => (last'.ret = JFalse /\ watchlist' = watchlist)
           /\ InWatchlist(last'.key)
              => /\ last'.ret = JTrue
                 /\ Len(getAllStocks') = Len(getAllStocks) - 1
                 /\ getAllStocks' =
                      SelectSeq(getAllStocks,
                                LAMBDA r : ~SameEntity(r.ticker, last'.key))
           /\ ~KeyIn(watchlist', last'.key) ]_vars

C14_Witness ==
    /\ last.op = "removeStock"
    /\ last.key = "aapl"
    /\ last.ret = JTrue
    /\ Len(getAllStocks) = 1
    /\ getAllStocks[1].ticker = "MSFT"

\* position of row r in what getAllStocks returns
PositionOf(r) == CHOOSE i \in 1..Len(getAllStocks) : getAllStocks[i] = r

StoredKeysNormal ==
    /\ \A r \in watchlist : r.ticker = toUpperCase(r.ticker)
    /\ \A r1, r2 \in watchlist : SameEntity(r1.ticker, r2.ticker) => r1 = r2

\* C16: after any sequence of addStock, removeStock and updateStockPrice
\* with keys in any letter case, every stored ticker is uppercase and no two
\* rows have the same ticker; addStock returns true exactly when the key is
\* absent in every letter case, so add('x') then add('X') gives true, false.
C16_UppercaseUnique ==
    /\ []StoredKeysNormal
    /\ [][ last'.op = "addStock"
           => /\ last'.ret = Bool(~InWatchlist(last'.key))
              /\ KeyIn(watchlist', last'.key) ]_vars

C16_Witness ==
    /\ last.op = "addStock"
    /\ last.key = "AAPL"
    /\ last.ret = JFalse
    /\ \E r \in watchlist : r.ticker = "AAPL" /\ r.price = "99"
    /\ Cardinality(watchlist) = 1

\* the columns updateStockPrice does not write
Identity(r) == [id |-> r.id, ticker |-> r.ticker, added_at |-> r.added_at]

\* C17: updateStockPrice of an absent key returns false and changes nothing;
\* of a present key it returns true and writes the four snapshot columns of
\* that row only: ids, tickers, added_at, the getAllStocks order and the
\* other rows are unchanged.
C17_UpdateInPlace ==
    [][ last'.op = "updateStockPrice"
        => /\ ~InWatchlist(last'.key)
              => (last'.ret = JFalse /\ watchlist' = watchlist)
           /\ InWatchlist(last'.key)
              => /\ last'.ret = JTrue
                 /\ \E r \in watchlist' :
                       /\ SameEntity(r.ticker, last'.key)
                       /\ r.last_updated = CURRENT_TIMESTAMP
                       /\ r.price # "NULL"
           /\ {Identity(r) : r \in watchlist'} = {Identity(r) : r \in watchlist}
           /\ [i \in 1..Len(getAllStocks') |-> Identity(getAllStocks'[i])]
                 = [i \in 1..Len(getAllStocks) |-> Identity(getAllStocks[i])]
           /\ \A r \in watchlist :
                 ~SameEntity(r.ticker, last'.key) => r \in watchlist' ]_vars

C17_Witness ==
    /\ last.op = "updateStockPrice"
    /\ last.key = "aapl"
    /\ last.ret = JTrue
    /\ now > 0
    /\ \E r \in watchlist : r.ticker = "AAPL" /\ r.price = "101"
                            /\ r.added_at # r.last_updated
    /\ \E r \in watchlist : r.ticker = "MSFT" /\ r.price = "99"

----------------------------------------------------------------------------
(* Claims about the watchlist flows of the App *)

\* the rows of the table after a step that were not in it before
InsertedRows == {r \in watchlist' : \A q \in watchlist : q.id # r.id}

\* C18: a step inserts a ticker into the watchlist only as the add dialog's
\* step in which validateSymbol for that ticker returned true (the verdict
\* is then also the live validation entry of the cache); when validateSymbol
\* returns false or throws, or is still awaited, the watchlist is unchanged.
C18_AddAfterValidation ==
    [][ /\ \A r \in InsertedRows :
              /\ last'.op = "showAddStockDialog"
              /\ last'.key = r.ticker
              /\ last'.via \in {"db", "upstream"}
              /\ last'.ret = JTrue
              /\ last'.err = ""
              /\ getCacheDataIn(cacheTable', r.ticker, "validation") = JTrue
        /\ ( last'.op = "showAddStockDialog" /\ last'.ret # JTrue )
              => watchlist' = watchlist ]_vars

C18_Witness ==
    /\ last.op = "showAddStockDialog"
    /\ last.via = "upstream"
    /\ last.key = "AAPL"
    /\ last.added
    /\ \E r \in watchlist : r.ticker = "AAPL"
    /\ ~ \E r \in watchlist : r.ticker = "MSFT"
    /\ getCacheData("MSFT", "validation") = JFalse

QuoteRequest(t) == Request("getStockQuote", t, "")

\* the lookups of the refreshes in progress that wait for ticker t
WaitingFor(t) ==
    LET Count(b) == IF b \in WaitingBatches(t) THEN CopiesIn(b, batches) ELSE 0
        RECURSIVE Sum(_)
        Sum(bs) == IF bs = {} THEN 0
                   ELSE LET b == CHOOSE x \in bs : TRUE
                        IN  Count(b) + Sum(bs \ {b})
    IN  Sum(BagToSet(batches))

SettledIn(batch) == {t \in DOMAIN batch.outcome : batch.outcome[t] # "waiting"}

FailedIn(batch) == {t \in DOMAIN batch.outcome : batch.outcome[t] = "failed"}

CountsAgree ==
    /\ \A b \in BagToSet(batches) :
          /\ b.successCount + b.errorCount = Cardinality(SettledIn(b))
          /\ b.errorCount = Cardinality(FailedIn(b))
    /\ \A t \in Symbols : CopiesIn(QuoteRequest(t), pending) = WaitingFor(t)
    /\ last.summary.shown
          => /\ last.summary.successCount + last.summary.errorCount = last.summary.n
             /\ last.summary.errorCount = Cardinality(last.summary.failed)

\* C19: a bulk refresh issues the lookup of every entry it read before it
\* awaits any (each entry is answered from a cache at once or has its
\* request in flight after the first step); a lookup that succeeds updates
\* the snapshot of its entry whatever happened to the others; the counters
\* count the settled lookups, and at the summary successCount + errorCount
\* = N with errorCount the number of failed lookups.
C19_BulkRefresh ==
    /\ []CountsAgree
    /\ [][ /\ ( last'.op = "refreshStockPrices" /\ last'.via = "start" )
              => \A t \in Lookups(watchlist) :
                    \/ CopiesIn(QuoteRequest(t), pending')
                          = CopiesIn(QuoteRequest(t), pending) + 1
                    \/ /\ CopiesIn(QuoteRequest(t), pending')
                             = CopiesIn(QuoteRequest(t), pending)
                       /\ \E r \in watchlist' : /\ r.ticker = t
                                                /\ r.price # "NULL"
                                                /\ r.last_updated = CURRENT_TIMESTAMP
           /\ ( last'.op = "refreshStockPrices" /\ last'.via = "upstream"
                /\ last'.err = "" )
              => \A r \in watchlist' :
                    r.ticker = last'.key
                       => r.price # "NULL" /\ r.last_updated = CURRENT_TIMESTAMP ]_vars

C19_Witness ==
    /\ last.op = "refreshStockPrices"
    /\ last.via = "upstream"
    /\ last.err = ""
    /\ last.key = "AAPL"
    /\ last.summary.shown
    /\ last.summary.n = 2
    /\ last.summary.successCount = 1
    /\ last.summary.failed = {"MSFT"}
    /\ \E r \in watchlist : r.ticker = "AAPL" /\ r.price # "NULL"
    /\ \E r \in watchlist : r.ticker = "MSFT" /\ r.price = "NULL"

\* two requests are the same upstream call: same kind, same ticker, and for
\* a historical series the same range
SameCall(r1, r2) ==
    /\ r1.op = r2.op
    /\ r1.ticker = r2.ticker
    /\ r1.op = "getHistoricalData" => r1.arg = r2.arg

\* C20: no two upstream calls of the same kind for the same ticker are in
\* flight at the same time.
C20_NoDuplicateCalls ==
    \A r1 \in BagToSet(pending) :
        /\ CopiesIn(r1, pending) = 1
        /\ \A r2 \in BagToSet(pending) : SameCall(r1, r2) => r1 = r2

----------------------------------------------------------------------------
(* Claims about invalidation and the adapters *)

AdapterLookups == {"getStockQuote", "validateSymbol", "getHistoricalData"}

\* C21: when clearSpecificCache(key, category) has just returned and the
\* next step is an adapter lookup for the same key and category, the lookup
\* issues an upstream request: it is not answered from a cache.
C21_FreshAfterInvalidate ==
    [][ ( /\ last.op = "clearSpecificCache"
          /\ last'.op \in AdapterLookups
          /\ last'.via \in {"db", "memory", "fetch"}
          /\ SameEntity(last'.key, last.key)
          /\ last'.cacheType = last.cacheType )
        => last'.via = "fetch" ]_vars

\* a step in which getStockAnalysis or getFinancialEvents sent its usage report
SignalSentBy(op) ==
    /\ last'.op = op
    /\ BagCardinality(paidSignals') = BagCardinality(paidSignals) + 1

\* C22: the adapter call that sends the usage report returns its parsed
\* result in the same step, while usage.record is still awaited; when
\* usage.record settles, also by rejecting, the cache is left as it is and
\* no error escapes (the rejection is caught).
C22_MeteringContained ==
    [][ /\ SignalSentBy("getStockAnalysis")
           => /\ last'.ret \in {JAnalysis(JEvents), JAnalysis(JEmptyArray)}
              /\ getCacheDataIn(cacheTable', last'.key, "analysis") = last'.ret
        /\ SignalSentBy("getFinancialEvents")
           => /\ last'.caller = "" => last'.ret = JEvents
              /\ getCacheDataIn(cacheTable', last'.key, "events") = JEvents
        /\ last'.op = "sendPaidSignal"
           => /\ cacheTable' = cacheTable
              /\ last'.err = "" ]_vars

----------------------------------------------------------------------------
(* Claims about the mapping of provider responses *)

ErrorKinds == {"http", "invalid", "ratelimit", "nodata"}

\* the error kind a thrown message stands for
KindOf(message) ==
    CASE message = "HTTP error! status"             -> "http"
      [] message = "Invalid symbol"                 -> "invalid"
      [] message \in {"API rate limit exceeded. Please try again later.",
                      "API rate limit exceeded. Free tier allows 25 requests per day."}
                                                    -> "ratelimit"
      [] message = "No data available for symbol"   -> "nodata"
      [] message = ""                               -> "none"
      [] OTHER                                      -> "other"

\* the error kinds the signals of a response call for
SignalledKinds(shape) ==
    IF ~shape.ok THEN {"http"}
    ELSE (IF shape.errorMessage THEN {"invalid"} ELSE {})
         \cup (IF shape.note \/ shape.information THEN {"ratelimit"} ELSE {})

\* C23: getStockQuote maps a non-OK status to the HTTP error, an error
\* field to invalid-symbol, a note or information field to rate-limit, and,
\* with none of these, every body other than a well-formed quote to
\* no-data; only a well-formed quote without error signals yields a quote.
C23_QuoteErrorKinds ==
    last.op = "getStockQuote"
    => LET shape == last.resp
           kind  == KindOf(last.err)
       IN  /\ SignalledKinds(shape) # {}
              => kind \in SignalledKinds(shape) /\ last.ret = JUndefined
           /\ ( SignalledKinds(shape) = {} /\ shape.body # "full" )
              => kind = "nodata" /\ last.ret = JUndefined
           /\ ( SignalledKinds(shape) = {} /\ shape.body = "full" )
              => kind = "none" /\ last.ret = JQuote

\* the window the claim states for a range, in days
ClaimedWindow(timeRange) ==
    CASE timeRange = "1m" -> 30
      [] timeRange = "3m" -> 90
      [] timeRange = "1y" -> 365
      [] timeRange = "5y" -> 1825

InWindow(day, timeRange) ==
    day * 24 >= now - ClaimedWindow(timeRange) * 24

\* C24: for a fetch at time now, every point getHistoricalData returns has
\* its date (midnight UTC) at or after now minus the window of the range,
\* the points are in ascending date order, every point of the response
\* inside the window is returned, and no other point is.
C24_SeriesWindow ==
    last.op = "getHistoricalData"
    => LET raw    == last.data
           result == last.rows
           range  == last.key
       IN  /\ \A i \in 1..Len(result) : InWindow(result[i].date, range)
           /\ \A i, j \in 1..Len(result) : i < j => result[i].date < result[j].date
           /\ \A k \in 1..Len(raw) :
                 InWindow(raw[k], range)
                    => \E i \in 1..Len(result) : result[i].date = raw[k]
           /\ \A i \in 1..Len(result) : \E k \in 1..Len(raw) : raw[k] = result[i].date

C24_Witness ==
    /\ last.op = "getHistoricalData"
    /\ last.key = "5y"
    /\ now = FetchDay * 24
    /\ last.data = <<FetchDay, FetchDay - 1826, FetchDay - 1825>>
    /\ Len(last.rows) = 2
    /\ last.rows[1].date = FetchDay - 1825
    /\ last.rows[2].date = FetchDay

IsHeader(line) ==
    MentionsRecent(Trim(line)) \/ MentionsEvents(Trim(line)) \/ MentionsValuation(Trim(line))

\* chunk k (1, 2, 3) of the non-blank lines, each of ceil(n/3) lines
ClaimedChunk(content, k) ==
    LET lines == NonBlankLines(content)
        size  == CeilThird(Len(lines))
        first == (k - 1) * size + 1
        final == IF k * size < Len(lines) THEN k * size ELSE Len(lines)
    IN  IF first > final THEN <<>> ELSE SubSeq(lines, first, final)

\* C25: when no line of the response is recognised as a section header, the
\* three sections are the three contiguous chunks of ceil(n/3) non-blank
\* lines, in order: response lines, not placeholders.
C25_FallbackThirds ==
    (last.op = "parseAnalysis" /\ \A i \in 1..Len(last.data) : ~IsHeader(last.data[i]))
    => /\ ClaimedChunk(last.data, 1) # <<>> => last.ret.recentNews = ClaimedChunk(last.data, 1)
       /\ ClaimedChunk(last.data, 2) # <<>> => last.ret.majorEvents = ClaimedChunk(last.data, 2)
       /\ ClaimedChunk(last.data, 3) # <<>>
             => last.ret.valuationAssessment = ClaimedChunk(last.data, 3)

\* the bullets of the lines first..final, markers stripped
BulletsOf(content, first, final) ==
    [i \in 1..(final - first + 1) |-> StripMarker(Trim(content[first + i - 1]))]

\* the three headers at lines 1, h2 and h3, every other line a bullet, at
\* least one bullet after each header
Headed(content, h2, h3) ==
    /\ 2 < h2 /\ h2 + 1 < h3 /\ h3 < Len(content)
    /\ content[1] = RecentHeader
    /\ content[h2] = EventsHeader
    /\ content[h3] = ValuationHeader
    /\ \A i \in 1..Len(content) : i \notin {1, h2, h3} => StartsWithMarker(Trim(content[i]))

\* C26: for a response made of the three section headers, each followed by
\* bullet lines, every section holds exactly the bullets that follow its
\* header, markers stripped, in input order, whatever the bullets say.
C26_BulletsInSections ==
    last.op = "parseAnalysis"
    => \A h2, h3 \in 1..Len(last.data) :
          Headed(last.data, h2, h3)
          => /\ last.ret.recentNews = BulletsOf(last.data, 2, h2 - 1)
             /\ last.ret.majorEvents = BulletsOf(last.data, h2 + 1, h3 - 1)
             /\ last.ret.valuationAssessment = BulletsOf(last.data, h3 + 1, Len(last.data))

Placeholders ==
    [recentNews |-> NoRecentNews, majorEvents |-> NoMajorEvents,
     valuationAssessment |-> NoValuation]

\* C27: for every response text, each of the three sections of the parsed
\* analysis is non-empty and holds no blank item, and a section that
\* received no line holds exactly its placeholder.
C27_SectionsNonEmpty ==
    last.op = "parseAnalysis"
    => \A section \in DOMAIN Placeholders :
          /\ Len(last.ret[section]) > 0
          /\ \A i \in 1..Len(last.ret[section]) : last.ret[section][i] # ""
          /\ IF Sectioned(last.data)[section] = <<>>
             THEN last.ret[section] = <<Placeholders[section]>>
             ELSE last.ret[section] = Sectioned(last.data)[section]

C27_Witness ==
    /\ last.op = "parseAnalysis"
    /\ last.data = <<ShortLine, RecentHeader, PlainBullet, BlankLine, ValuationHeader>>
    /\ last.ret.recentNews = <<"Shares rose">>
    /\ last.ret.majorEvents = <<NoMajorEvents>>
    /\ last.ret.valuationAssessment = <<NoValuation>>

\* the events of the lines of the response that match the format
MatchingEvents(content) ==
    LET matching == SelectSeq(content, LAMBDA l : l.date # NoDate /\ LowerCase(l.impact) \in ImpactTags)
    IN  [i \in 1..Len(matching) |-> EventOf(matching[i])]

BagOfSeq(seq) == [x \in {seq[i] : i \in 1..Len(seq)} |-> Cardinality({i \in 1..Len(seq) : seq[i] = x})]

\* the date order of two date texts; an impossible date has no place in it
DateBefore(a, b) == a # ImpossibleDate /\ b # ImpossibleDate /\ a < b

\* C28: for every response, the events returned are events of the matching
\* lines, at most 10 and all of them when there are at most 10; they are in
\* ascending date order, no event left out is earlier than a returned one,
\* and every impact is one of the three lowercase tags.
C28_FirstTenByDate ==
    last.op = "parseFinancialEvents"
    => LET all    == MatchingEvents(last.data)
           result == last.rows
           rest   == BagOfSeq(all) (-) BagOfSeq(result)
       IN  /\ Len(result) = (IF Len(all) < 10 THEN Len(all) ELSE 10)
           /\ BagOfSeq(result) \sqsubseteq BagOfSeq(all)
           /\ \A i, j \in 1..Len(result) : i < j => ~DateBefore(result[j].date, result[i].date)
           /\ \A e \in BagToSet(rest) : \A i \in 1..Len(result) : ~DateBefore(e.date, result[i].date)
           /\ \A i \in 1..Len(result) : result[i].impact \in {"positive", "negative", "neutral"}

\* a step that issues the upstream call of a guarded operation has added the
\* marker and found no entry
IssuedInOrder(inFlightBefore, inFlightAfter, markersBefore, markersAfter, t, cacheType) ==
    inFlightAfter > inFlightBefore
    => /\ t \notin markersBefore
       /\ t \in markersAfter
       /\ getCacheDataIn(cacheTable', t, cacheType) = JNull

\* the step that handles a good answer writes the entry and removes the marker
\* that was there during the call
WrittenThenReleased(markersBefore, markersAfter, ret) ==
    /\ last'.key \in markersBefore
    /\ last'.key \notin markersAfter
    /\ UnexpiredRows(cacheTable', last'.key, last'.cacheType) # {}
    /\ \A r \in UnexpiredRows(cacheTable', last'.key, last'.cacheType) :
          r.data = JSONstringify(ret)

\* a load for a ticker without marker and with an entry written within the TTL
\* and still there
AnsweredFromCache(op, markersBefore) ==
    ( /\ last'.op = op
      /\ last'.key \notin markersBefore
      /\ UnexpiredRows(cacheTable, last'.key, last'.cacheType) # {} )
    => /\ last'.via = "db"
       /\ \A r \in UnexpiredRows(cacheTable, last'.key, last'.cacheType) :
             last'.ret = JSONparse(r.data)
       /\ pending' = pending
       /\ cacheTable' = cacheTable

\* C29: a guarded fetch adds its marker, looks the entry up and calls
\* upstream in that order, and on a good answer writes the entry and then
\* removes the marker; hence a load for a (ticker, kind) whose marker is
\* absent and whose entry was written within the TTL and not invalidated
\* since is answered from the cache, with no upstream call.
C29_CacheAfterFetch ==
    [][ /\ \A t \in Watched :
              /\ IssuedInOrder(NewsInFlight(t), NewsInFlight(t)', ongoingNewsCalls,
                               ongoingNewsCalls', t, "analysis")
              /\ IssuedInOrder(EventsInFlight(t), EventsInFlight(t)', ongoingEventsCalls,
                               ongoingEventsCalls', t, "events")
        /\ (last'.op = "getNewsAnalysisOnly" /\ last'.via = "upstream" /\ last'.err = "")
              => WrittenThenReleased(ongoingNewsCalls, ongoingNewsCalls', last'.ret)
        /\ ( /\ last'.op = "getFinancialEvents" /\ last'.via = "upstream"
             /\ pending' # pending /\ AIError(last'.resp) = "" )
              => WrittenThenReleased(ongoingEventsCalls, ongoingEventsCalls', JEvents)
        /\ AnsweredFromCache("loadNewsForSelectedStock", ongoingNewsCalls)
        /\ AnsweredFromCache("loadEventsForSelectedStock", ongoingEventsCalls) ]_vars

C29_Witness ==
    /\ last.op = "loadNewsForSelectedStock"
    /\ last.key = "AAPL"
    /\ last.via = "db"
    /\ last.ret = JAnalysis(JEmptyArray)
    /\ UnexpiredRows(cacheTable, "AAPL", "analysis") # {}
    /\ "AAPL" \notin ongoingNewsCalls
    /\ pending = EmptyBag

\* the only removal of a marker is by the one operation that holds it
ReleasedByOwner(markersBefore, markersAfter, inFlightBefore, inFlightAfter, t) ==
    (t \in markersBefore /\ t \notin markersAfter)
    => /\ inFlightBefore = 1
       /\ inFlightAfter = 0

\* C30: for each kind (news analysis, financial events) and each ticker at
\* most one guarded operation, load or refresh, is between adding and
\* removing the marker, and a marker is removed only by the step that ends
\* that one operation.
C30_OneOwnerPerMarker ==
    /\ [](\A t \in Watched : NewsInFlight(t) <= 1 /\ EventsInFlight(t) <= 1)
    /\ [][ \A t \in Watched :
              /\ ReleasedByOwner(ongoingNewsCalls, ongoingNewsCalls',
                                 NewsInFlight(t), NewsInFlight(t)', t)
              /\ ReleasedByOwner(ongoingEventsCalls, ongoingEventsCalls',
                                 EventsInFlight(t), EventsInFlight(t)', t) ]_vars

C30_Witness ==
    /\ last.op = "loadEventsForSelectedStock"
    /\ last.key = "MSFT"
    /\ last.via = "skipped"
    /\ pending = SetToBag({Request("getFinancialEvents", "MSFT", "refresh"),
                           Request("getNewsAnalysisOnly", "MSFT", "load")})
    /\ ongoingEventsCalls = {"MSFT"}
    /\ ongoingNewsCalls = {"MSFT"}

RowsOf(table, t, cacheType) == {r \in table : SameKey(r, t, cacheType)}

\* a refresh step that removes a row of (t, cacheType) found no call in flight
ClearsOnlyWhenIdle(op, cacheType, inFlightBefore, markersBefore, t) ==
    ( /\ last'.op = op
      /\ last'.key = t
      /\ pending' # pending \/ last' # last
      /\ RowsOf(cacheTable, t, cacheType) \ cacheTable' # {} )
    => /\ inFlightBefore = 0
       /\ t \notin markersBefore

\* a refresh that backs off leaves every cache row as it is
BackOffKeepsRows(op) ==
    (last'.op = op /\ last'.via = "skipped") => cacheTable' = cacheTable

\* C31: refreshNewsAnalysis / refreshEventsAnalysis delete the analysis /
\* events entry only when no fetch for the same (ticker, kind) is in flight;
\* a refresh that backs off deletes nothing.
C31_RefreshClearsWhenIdle ==
    [][ /\ \A t \in Watched :
              /\ ClearsOnlyWhenIdle("refreshNewsAnalysis", "analysis", NewsInFlight(t),
                                    ongoingNewsCalls, t)
              /\ ClearsOnlyWhenIdle("refreshEventsAnalysis", "events", EventsInFlight(t),
                                    ongoingEventsCalls, t)
        /\ BackOffKeepsRows("refreshNewsAnalysis")
        /\ BackOffKeepsRows("refreshEventsAnalysis") ]_vars

C31_Witness ==
    /\ last.op = "refreshNewsAnalysis"
    /\ last.key = "AAPL"
    /\ last.via = "skipped"
    /\ NewsInFlight("AAPL") = 1
    /\ RowsOf(cacheTable, "AAPL", "analysis") # {}

\* call is the end of a refresh of cacheType whose upstream call failed
RefreshFailed(call, op, cacheType) ==
    /\ call.op = op
    /\ call.cacheType = cacheType
    /\ call.via = "upstream"
    /\ call.caller = "refresh"
    /\ AIError(call.resp) # ""

\* call is the start of a refresh that deleted the entry before its call
RefreshCleared(call, op) ==
    /\ call.op = op
    /\ call.via = "fetch"
    /\ call.existed

FailedRefreshLeavesAbsent(op, cacheType) ==
    RefreshFailed(last', op, cacheType)
    => getCacheDataIn(cacheTable', last'.key, cacheType) = JNull

NextTriggerCallsUpstream(op, cacheType, triggers, inFlightAfter) ==
    ( /\ RefreshFailed(last, op, cacheType)
      /\ last'.op \in triggers
      /\ last'.key = last.key )
    => /\ last'.via = "fetch"
       /\ ~last'.existed
       /\ inFlightAfter = 1

\* C32: when a refresh of analysis or events has deleted the entry and its
\* upstream call fails, the entry is absent while the call is awaited and
\* stays absent once the refresh has finished (the earlier payload is not
\* put back), and the next load or refresh of that (ticker, category) finds
\* nothing and calls upstream again.
C32_FailedRefreshNotRestored ==
    /\ [](\A t \in Watched :
            /\ (RefreshCleared(last, "refreshNewsAnalysis") /\ last.key = t
                   /\ NewsInFlight(t) = 1)
                  => getCacheData(t, "analysis") = JNull
            /\ (RefreshCleared(last, "refreshEventsAnalysis") /\ last.key = t
                   /\ EventsInFlight(t) = 1)
                  => getCacheData(t, "events") = JNull)
    /\ [][ /\ FailedRefreshLeavesAbsent("getNewsAnalysisOnly", "analysis")
           /\ FailedRefreshLeavesAbsent("getFinancialEvents", "events")
           /\ NextTriggerCallsUpstream("getNewsAnalysisOnly", "analysis",
                 {"loadNewsForSelectedStock", "refreshNewsAnalysis"},
                 NewsInFlight(last.key)')
           /\ NextTriggerCallsUpstream("getFinancialEvents", "events",
                 {"loadEventsForSelectedStock", "refreshEventsAnalysis"},
                 EventsInFlight(last.key)') ]_vars

C32_Witness ==
    /\ RefreshFailed(last, "getFinancialEvents", "events")
    /\ last.key = "AAPL"
    /\ last.ret = JEmptyArray
    /\ getCacheData("AAPL", "events") = JNull
    /\ "AAPL" \notin ongoingEventsCalls
    /\ pending = EmptyBag

\* C33: when getStockQuote or getHistoricalData ends by throwing (HTTP
\* error, invalid symbol, rate limit, no data), the step that handles the
\* answer leaves the cache table and the in-memory quote cache as they
\* were, as did the step that issued the call; no row and no in-memory
\* entry ever holds the failure.
C33_ErrorsLeaveCaches ==
    /\ [][ ( /\ last'.op \in {"getStockQuote", "getHistoricalData"}
             /\ \/ last'.via = "upstream" /\ last'.err \in {"http", "invalid", "ratelimit", "nodata"}
                \/ last'.via = "fetch" )
           => /\ cacheTable' = cacheTable
              /\ memCache' = memCache ]_vars
    /\ [](/\ \A r \in cacheTable : JSONparse(r.data) # JUndefined
          /\ \A s \in Symbols : memCache[s] # NoEntry => memCache[s].data = JQuote)

C33_Witness ==
    /\ last.op = "getStockQuote"
    /\ last.via = "upstream"
    /\ last.err = "ratelimit"
    /\ memCache["AAPL"] # NoEntry
    /\ getCacheData("AAPL", "quote") = JNull
    /\ \E r \in cacheTable : r.cache_type = "historical_1m"

\* the rows getCacheData does not return for their own key
TreatedAbsent(table) ==
    {r \in table : r \notin LiveRows(table, r.ticker, r.cache_type)}

\* C34: clearExpiredCache changes the result of no getCacheData: it deletes
\* exactly the rows getCacheData already treats as absent, and returns
\* their number.
C34_SweepKeepsAnswers ==
    [][ last'.op = "clearExpiredCache"
        => /\ \A k \in StoreKeys, c \in StoreTypes :
                 getCacheDataIn(cacheTable', k, c) = getCacheDataIn(cacheTable, k, c)
           /\ cacheTable' \subseteq cacheTable
           /\ cacheTable \ cacheTable' = TreatedAbsent(cacheTable)
           /\ TreatedAbsent(cacheTable') = {}
           /\ last'.count = Cardinality(cacheTable \ cacheTable') ]_vars

C34_Witness ==
    /\ last.op = "clearExpiredCache"
    /\ last.count = 1
    /\ Cardinality(cacheTable) = 1
    /\ \E r \in cacheTable : InstantOf(r.expires_at) <= now

\* C35: addStock, removeStock and updateStockPrice leave every cache row as
\* it is (the cached entries of a removed ticker stay), and setCacheData,
\* getCacheData, clearSpecificCache and clearExpiredCache leave the watchlist
\* and the answer of getAllStocks as they are.
C35_TablesIndependent ==
    [][ /\ last'.op \in {"addStock", "removeStock", "updateStockPrice"}
           => cacheTable' = cacheTable
        /\ last'.op \in {"setCacheData", "getCacheData", "clearSpecificCache",
                         "clearExpiredCache"}
           => /\ watchlist' = watchlist
              /\ nextId' = nextId
              /\ getAllStocksOf(watchlist') = getAllStocksOf(watchlist) ]_vars

C35_Witness ==
    /\ last.op = "removeStock"
    /\ last.key = "AAPL"
    /\ last.ret = JTrue
    /\ ~KeyIn(watchlist, "AAPL")
    /\ getCacheData("AAPL", "analysis") = JQuote
    /\ getCacheData("AAPL", "events") = JFalse

----------------------------------------------------------------------------
(* Claims about overlapping flows of the App *)

\* the keys listAll() returns
ListedKeys(table) ==
    {getAllStocksOf(table)[i].ticker : i \in 1..Cardinality(table)}

AddedKey == last'.op = "showAddStockDialog" /\ last'.added

RemovedKey == last'.op = "deleteSelectedStock" /\ last'.ret = JTrue

\* C36: the keys listAll() returns change only by an add that succeeded
\* (the key is then listed) and by a remove (the key is then not listed);
\* a quote response of a bulk refresh, also one that arrives for a key
\* removed meanwhile, leaves the listed keys as they are.
C36_RemovedStaysRemoved ==
    [][ ListedKeys(watchlist') =
            IF AddedKey THEN ListedKeys(watchlist) \cup {last'.key}
            ELSE IF RemovedKey THEN ListedKeys(watchlist) \ {last'.key}
            ELSE ListedKeys(watchlist) ]_vars

C36_Witness ==
    /\ last.op = "refreshStockPrices"
    /\ last.via = "upstream"
    /\ last.err = ""
    /\ last.key = "AAPL"
    /\ ~hasStock("AAPL")
    /\ ListedKeys(watchlist) = {"MSFT"}

\* the add dialog's step in which addStock was called: validateSymbol
\* answered true, from the cache or from upstream
AddCalled ==
    /\ last'.op = "showAddStockDialog"
    /\ last'.via \in {"db", "upstream"}
    /\ last'.err = ""
    /\ last'.ret = JTrue

\* C37: an add call returns true exactly when its ticker is not in the
\* watchlist at the call, and leaves exactly one entry for the ticker; a
\* ticker in the watchlist stays there until a remove. So of two add flows
\* for one ticker that both passed the already-present check, the first
\* add call returns true and the second false, and the watchlist never
\* holds two entries for a ticker.
C37_OneAddWins ==
    /\ [](\A t \in Symbols : Cardinality(TickerRows(watchlist, t)) <= 1)
    /\ [][ AddCalled
              => /\ last'.added <=> ~hasStock(last'.key)
                 /\ Cardinality(TickerRows(watchlist', last'.key)) = 1 ]_vars
    /\ [][ ~RemovedKey
              => ListedKeys(watchlist) \subseteq ListedKeys(watchlist') ]_vars

C37_Witness ==
    /\ last.op = "showAddStockDialog"
    /\ last.via = "upstream"
    /\ last.key = "AAPL"
    /\ last.ret = JTrue
    /\ ~last.added
    /\ Cardinality(TickerRows(watchlist, "AAPL")) = 1

\* a load or refresh of the news or events of the selected stock has just
\* run up to its guard or its await: this.selectedStock = stock.ticker
SelectionSteps == {"loadNewsForSelectedStock", "loadEventsForSelectedStock",
                   "refreshNewsAnalysis", "refreshEventsAnalysis"}

\* the stock selected after the step recorded in call, when that step read
\* the selection
SelectedAfter(call) == toUpperCase(call.key)

\* a fetch completes and its caller passes the result to updateNewsWidgets
\* or displayEventsForSelectedStock
WritesResult(call) ==
    /\ call.op \in {"getNewsAnalysisOnly", "getFinancialEvents"}
    /\ call.via = "upstream"
    /\ call.err = ""
    /\ Truthy(call.ret)

\* C38: a fetch that completes and writes its result into the news or
\* events widgets belongs to the stock selected at that moment; stated for
\* the completions that come right after a step that read the selection.
C38_ResultOfSelected ==
    [][ ( last.op \in SelectionSteps /\ WritesResult(last') )
        => last'.key = SelectedAfter(last) ]_vars

====
